---------------------------- MODULE Spec2Model ----------------------------
(***************************************************************************)
(* A model of the ZivyObraz e-paper client (src/zivyobraz.py): the update  *)
(* poller check_for_update, the fetch / format detection / render path of  *)
(* download_and_display_image, the registration screen and the main loop   *)
(* run() with its two exception handlers.                                  *)
(*                                                                         *)
(* The external world (HTTP server, display driver, interrupt signal) is   *)
(* a nondeterministic choice in the action that calls it.                  *)
(***************************************************************************)
EXTENDS Integers, Sequences, FiniteSets, TLC

(***************************************************************************)
(* Program constants.                                                      *)
(***************************************************************************)
DEFAULT_SLEEP_TIME == 120

COLOR_WHITE == 255

COLOR_BLACK == 0
DISPLAY_WIDTH == 800
DISPLAY_HEIGHT == 480

MAGIC_BMP == \h4D42
MAGIC_Z1 == \h315A
MAGIC_Z2 == \h325A
MAGIC_Z3 == \h335A

BMP_HEADER_LEN == 54

(***************************************************************************)
(* Bounds of the model.                                                    *)
(***************************************************************************)
\* timestamp header values are the decimal strings of 0..MaxTs
MaxTs == 2
\* sleep / sleepseconds header values are the decimal strings of -1..MaxSleep
MaxSleep == 1
\* rotate header values are the decimal strings of 0..MaxRotate
MaxRotate == 4
\* a check response carries at most MaxHeaders headers
MaxHeaders == 3
\* fetched payloads: every byte string over PayloadBytes up to this length
MaxPayloadLen == 2

MaxBody == 4

MaxWidth == 3

MaxHeight == 2

(***************************************************************************)
(* Header values are strings on the wire: a string is a sequence of        *)
(* one-character strings.  Str writes an integer in decimal, ParseInt is   *)
(* Python's int() on the strings of the model.                             *)
(***************************************************************************)
DigitChars == <<"0", "1", "2", "3", "4", "5", "6", "7", "8", "9">>

RECURSIVE Digits(_)
Digits(n) == IF n < 10 THEN <<DigitChars[n + 1]>>
             ELSE Digits(n \div 10) \o <<DigitChars[(n % 10) + 1]>>

Str(n) == IF n < 0 THEN <<"-">> \o Digits(-n) ELSE Digits(n)

IsDigit(c) == \E i \in 1..10 : DigitChars[i] = c

DigitVal(c) == (CHOOSE i \in 1..10 : DigitChars[i] = c) - 1

RECURSIVE DigitsVal(_, _)
DigitsVal(s, acc) == IF s = <<>> THEN acc
                     ELSE DigitsVal(Tail(s), acc * 10 + DigitVal(Head(s)))

AllDigits(s) == s # <<>> /\ \A i \in 1..Len(s) : IsDigit(s[i])

\* int(value): [ok |-> TRUE, val |-> n], or ok = FALSE where int() raises ValueError
ParseInt(s) ==
    IF s # <<>> /\ Head(s) = "-" /\ AllDigits(Tail(s))
    THEN [ok |-> TRUE, val |-> 0 - DigitsVal(Tail(s), 0)]
    ELSE IF AllDigits(s)
    THEN [ok |-> TRUE, val |-> DigitsVal(s, 0)]
    ELSE [ok |-> FALSE, val |-> 0]

(***************************************************************************)
(* Response headers: a sequence of <<name, value>> in iteration order, the *)
(* names as the server spells them.  Lower is header.lower().              *)
(***************************************************************************)
WireNames == {"Timestamp", "Sleep", "SleepSeconds", "Rotate", "Server"}

Lower(name) ==
    CASE name = "Timestamp" -> "timestamp"
      [] name = "Sleep" -> "sleep"
      [] name = "SleepSeconds" -> "sleepseconds"
      [] name = "Rotate" -> "rotate"
      [] OTHER -> "server"

NotANumber == <<"x">>

WireValues(name) ==
    CASE name = "Timestamp" -> {Str(n) : n \in 0..MaxTs} \cup {NotANumber}
      [] name = "Sleep" -> {Str(n) : n \in (0 - 1)..MaxSleep} \cup {NotANumber}
      [] name = "SleepSeconds" -> {Str(n) : n \in (0 - 1)..MaxSleep} \cup {NotANumber}
      [] name = "Rotate" -> {Str(n) : n \in 0..MaxRotate} \cup {NotANumber}
      [] OTHER -> {NotANumber}

Header == UNION {{<<name, v>> : v \in WireValues(name)} : name \in WireNames}

\* requests keeps one entry per case-insensitive name
DistinctNames(hs) ==
    \A i, j \in 1..Len(hs) : i # j => Lower(hs[i][1]) # Lower(hs[j][1])

HeaderLists ==
    UNION {{hs \in [1..n -> Header] : DistinctNames(hs)} : n \in 0..MaxHeaders}

(***************************************************************************)
(* check_for_update, the header loop: the locals timestamp_now, sleep_time *)
(* and rotation after the loop, or ok = FALSE when an int() raised.        *)
(***************************************************************************)
ParseStart ==
    [ok |-> TRUE, timestamp_now |-> 0, sleep_time |-> DEFAULT_SLEEP_TIME, rotation |-> 0]

ParseError ==
    [ok |-> FALSE, timestamp_now |-> 0, sleep_time |-> DEFAULT_SLEEP_TIME, rotation |-> 0]

\* a sleep header taken as seconds
SleepHeaderSeconds_asSeconds(minutes) == minutes

SleepHeaderSeconds(minutes) == minutes * 60

HeaderStep(acc, h) ==
    LET header_lower == Lower(h[1])
        v == ParseInt(h[2])
    IN  IF header_lower \notin {"timestamp", "sleep", "sleepseconds", "rotate"}
        THEN acc
        ELSE IF ~v.ok THEN ParseError
        ELSE CASE header_lower = "timestamp" -> [acc EXCEPT !.timestamp_now = v.val]
               [] header_lower = "sleep" -> [acc EXCEPT !.sleep_time = SleepHeaderSeconds(v.val)]
               [] header_lower = "sleepseconds" -> [acc EXCEPT !.sleep_time = v.val]
               [] header_lower = "rotate" -> [acc EXCEPT !.rotation = v.val]

RECURSIVE ParseFrom(_, _)
ParseFrom(acc, hs) ==
    IF hs = <<>> \/ ~acc.ok THEN acc
    ELSE ParseFrom(HeaderStep(acc, Head(hs)), Tail(hs))

ParseHeaders(hs) == ParseFrom(ParseStart, hs)

\* what the header loop can leave behind, over every response of the model
ParsedResponses == {ParseHeaders(hs) : hs \in HeaderLists}

(***************************************************************************)
(* Byte buffers: sequences of 0..255, Python offset k at index k + 1.      *)
(* U16LE / U32LE / S32LE are struct.unpack('<H' / '<I' / '<i').            *)
(***************************************************************************)
U16LE(d, off) == d[off + 1] + 256 * d[off + 2]

U32LE(d, off) == d[off + 1] + 256 * d[off + 2] + 65536 * d[off + 3] + 16777216 * d[off + 4]

\* the sign bit is the top bit of the last byte (two's complement)
S32LE(d, off) ==
    d[off + 1] + 256 * d[off + 2] + 65536 * d[off + 3]
    + 16777216 * (IF d[off + 4] >= 128 THEN d[off + 4] - 256 ELSE d[off + 4])

Abs(n) == IF n < 0 THEN 0 - n ELSE n

\* the inverse packing, used to write the BMP payloads the server can send
Bytes16(n) == <<n % 256, (n \div 256) % 256>>

Bytes32(n) ==
    LET m == IF n < 0 THEN (n + 2147483647) + 1 ELSE n
        top == IF n < 0 THEN 128 ELSE 0
    IN  <<m % 256, (m \div 256) % 256, (m \div 65536) % 256, (m \div 16777216) + top>>

RECURSIVE Zeros(_)
Zeros(n) == IF n = 0 THEN <<>> ELSE <<0>> \o Zeros(n - 1)

\* a BMP file: 14-byte file header, 40-byte info header, then `rest`
MkBmp(width, height, planes, depth, compression, rest) ==
    Bytes16(MAGIC_BMP) \o Bytes32(BMP_HEADER_LEN + Len(rest)) \o Zeros(4)
    \o Bytes32(BMP_HEADER_LEN) \o Bytes32(40) \o Bytes32(width) \o Bytes32(height)
    \o Bytes16(planes) \o Bytes16(depth) \o Bytes32(compression) \o Zeros(20) \o rest

(***************************************************************************)
(* Images: the size of a decoded PIL image, or None.                       *)
(***************************************************************************)
None == [none |-> TRUE, w |-> 0, h |-> 0]

Img(w, h) == [none |-> FALSE, w |-> w, h |-> h]

\* decode_bmp: the header checks and the size of the image it returns
decode_bmp(d) ==
    IF Len(d) < BMP_HEADER_LEN THEN None
    ELSE IF U16LE(d, 0) # MAGIC_BMP THEN None
    ELSE IF U16LE(d, 26) # 1 THEN None
    ELSE IF U32LE(d, 30) \notin {0, 3} THEN None
    ELSE Img(U32LE(d, 18), Abs(S32LE(d, 22)))

\* the RLE decoders always return a DISPLAY_WIDTH x DISPLAY_HEIGHT canvas
decode_rle_z1(d) == Img(DISPLAY_WIDTH, DISPLAY_HEIGHT)

decode_rle_z2(d) == Img(DISPLAY_WIDTH, DISPLAY_HEIGHT)

decode_rle_z3(d) == Img(DISPLAY_WIDTH, DISPLAY_HEIGHT)

\* struct.unpack('<H', data[:2])[0]
ReadMagic(d) == U16LE(d, 0)

\* a chain whose else branch tries the BMP decoder
FormatOf_fallbackBmp(header) ==
    CASE header = MAGIC_Z1 -> "z1"
      [] header = MAGIC_Z2 -> "z2"
      [] header = MAGIC_Z3 -> "z3"
      [] OTHER -> "bmp"

\* the if / elif chain on the magic: the decoder it selects, "none" for the else branch
FormatOf(header) ==
    CASE header = MAGIC_BMP -> "bmp"
      [] header = MAGIC_Z1 -> "z1"
      [] header = MAGIC_Z2 -> "z2"
      [] header = MAGIC_Z3 -> "z3"
      [] OTHER -> "none"

Decode(fmt, d) ==
    CASE fmt = "bmp" -> decode_bmp(d)
      [] fmt = "z1" -> decode_rle_z1(d)
      [] fmt = "z2" -> decode_rle_z2(d)
      [] fmt = "z3" -> decode_rle_z3(d)

\* image.rotate(-90 / 90, expand=True) swaps the sides, rotate(180) keeps them
Rotate(img, rot) ==
    IF rot \in {1, 3} THEN Img(img.h, img.w) ELSE img

\* display_image: resize unless already display-sized; the size handed to epd.display
DisplaySize(img) ==
    IF <<img.w, img.h>> # <<DISPLAY_WIDTH, DISPLAY_HEIGHT>>
    THEN <<DISPLAY_WIDTH, DISPLAY_HEIGHT>>
    ELSE <<img.w, img.h>>

(***************************************************************************)
(* Payloads the fetch can return.                                          *)
(***************************************************************************)
PayloadBytes == {\h31, \h32, \h33, \h34, \h42, \h4D, \h5A}

ShortPayloads == UNION {[1..n -> PayloadBytes] : n \in 0..MaxPayloadLen}

\* 8 x 2 pixels, 1 bpp: a two-entry palette and two padded rows
BmpTail == <<0, 0, 0, 0, 255, 255, 255, 0, 128, 0, 0, 0, 1, 0, 0, 0>>

BmpPayloads ==
    { MkBmp(8, 2, 1, 1, 0, BmpTail),
      MkBmp(8, 0 - 2, 1, 1, 0, BmpTail),
      MkBmp(8, 2, 2, 1, 0, BmpTail),
      MkBmp(8, 2, 1, 1, 1, BmpTail),
      MkBmp(8, 2, 1, 2, 0, BmpTail) }

Payloads == ShortPayloads \cup BmpPayloads

(***************************************************************************)
(* State.                                                                  *)
(*   pc          where run() is: the call it is about to make or is in     *)
(*   self        self.timestamp, self.sleep_time, self.rotation            *)
(*   first_run   run()'s local first_run                                   *)
(*   chk         check_for_update's locals when it last ended              *)
(*   ret         the tuple run() unpacked: needs_update, sleep_time,       *)
(*               rotation                                                  *)
(*   data, decoder, image, success, dl_fail                                *)
(*               download_and_display_image: payload, decoder called,      *)
(*               image, return value and which return False was taken      *)
(*   reg_ctx     who called display_registration_info: the loop body or    *)
(*               the except handler                                        *)
(*   sleep_arg   argument of the time.sleep call in progress               *)
(*   driver_log  calls made to the display driver in this iteration        *)
(* History of the current iteration and of the run so far:                 *)
(*   raised      where non-interrupt exceptions were raised                *)
(*   interrupted a KeyboardInterrupt was delivered                         *)
(*   reg_called  display_registration_info was called                      *)
(*   decode_failures   decode failures since process start (2 = more)      *)
(*   seen        timestamp the last successful check saw                   *)
(*   prev        previous iteration: did its download fail, and the        *)
(*               timestamp its check was given                             *)
(***************************************************************************)
VARIABLES pc, self, first_run, chk, ret, data, decoder, image, success, dl_fail,
          reg_ctx, sleep_arg, driver_log,
          raised, interrupted, reg_called, decode_failures, seen, prev

\* frames of the functions that are also run on their own, idle inside run()
VARIABLES rle, bmp, hdr, render

frames == <<rle, bmp, hdr, render>>

clientVars == <<pc, self, first_run, chk, ret, data, decoder, image, success, dl_fail,
                reg_ctx, sleep_arg, driver_log,
                raised, interrupted, reg_called, decode_failures, seen, prev>>

vars == <<pc, self, first_run, chk, ret, data, decoder, image, success, dl_fail,
          reg_ctx, sleep_arg, driver_log,
          raised, interrupted, reg_called, decode_failures, seen, prev, frames>>
dlVars == <<data, decoder, image, success, dl_fail>>

NoCheck ==
    [outcome |-> "none", status_code |-> 0, timestamp_now |-> 0,
     sleep_time |-> DEFAULT_SLEEP_TIME, rotation |-> 0]

\* a failed check that hands back the stored advice instead of the defaults
FailureResult_stored ==
    [needs_update |-> FALSE, sleep_time |-> self.sleep_time, rotation |-> self.rotation]

\* return False, DEFAULT_SLEEP_TIME, 0
FailureResult ==
    [needs_update |-> FALSE, sleep_time |-> DEFAULT_SLEEP_TIME, rotation |-> 0]

\* needs_update, sleep_time, rotation before check_for_update has returned
NoResult ==
    [needs_update |-> FALSE, sleep_time |-> DEFAULT_SLEEP_TIME, rotation |-> 0]

NoPrev == [dl_failed |-> FALSE, advertised |-> 0]

NoFrame == [pc |-> "idle"]

\* the client after __init__, before run()
Constructed ==
    /\ pc = "check"
    /\ self = [timestamp |-> 0, sleep_time |-> DEFAULT_SLEEP_TIME, rotation |-> 0]
    /\ first_run = TRUE
    /\ chk = NoCheck
    /\ ret = NoResult
    /\ data = <<>>
    /\ decoder = "none"
    /\ image = None
    /\ success = FALSE
    /\ dl_fail = "none"
    /\ reg_ctx = "none"
    /\ sleep_arg = 0
    /\ driver_log = <<>>
    /\ raised = {}
    /\ interrupted = FALSE
    /\ reg_called = FALSE
    /\ decode_failures = 0
    /\ seen = [any |-> FALSE, ts |-> 0]
    /\ prev = NoPrev

Init ==
    /\ Constructed
    /\ rle = NoFrame /\ bmp = NoFrame /\ hdr = NoFrame /\ render = NoFrame

(***************************************************************************)
(* check_for_update                                                        *)
(***************************************************************************)
StatusCodes == {200, 404, 500}

\* a comparison that only accepts newer timestamps
NeedsUpdate_newer(timestamp_now, stored) == timestamp_now > stored

\* if timestamp_now != self.timestamp
NeedsUpdate(timestamp_now, stored) == timestamp_now # stored

\* an update that forgets self.timestamp = timestamp_now
StateAfterCheck_staleTimestamp(st, p, needs) ==
    IF needs
    THEN [timestamp |-> st.timestamp, sleep_time |-> p.sleep_time, rotation |-> p.rotation]
    ELSE st

\* a check that stores the server's advice even when no update is needed
StateAfterCheck_alwaysAdvice(st, p, needs) ==
    [timestamp |-> IF needs THEN p.timestamp_now ELSE st.timestamp,
     sleep_time |-> p.sleep_time, rotation |-> p.rotation]

\* an update that keeps the rotation stored before
StateAfterCheck_staleRotation(st, p, needs) ==
    IF needs
    THEN [timestamp |-> p.timestamp_now, sleep_time |-> p.sleep_time, rotation |-> st.rotation]
    ELSE st

\* self.* after the comparison: replaced by the parsed values only on an update
StateAfterCheck(st, p, needs) ==
    IF needs
    THEN [timestamp |-> p.timestamp_now, sleep_time |-> p.sleep_time, rotation |-> p.rotation]
    ELSE st

\* return True / False, sleep_time, rotation
CheckResult(p, needs) ==
    [needs_update |-> needs, sleep_time |-> p.sleep_time, rotation |-> p.rotation]

\* requests.get raises RequestException: caught, the failure tuple is returned
CheckTransportError ==
    /\ pc = "check"
    /\ chk' = [NoCheck EXCEPT !.outcome = "transport_error"]
    /\ ret' = FailureResult
    /\ raised' = raised \cup {"check_transport"}
    /\ pc' = "checked"
    /\ UNCHANGED <<self, first_run, dlVars, reg_ctx, sleep_arg, driver_log,
                   interrupted, reg_called, decode_failures, seen, prev, frames>>

\* response.status_code != 200
CheckBadStatus ==
    /\ pc = "check"
    /\ \E code \in StatusCodes \ {200} :
          chk' = [NoCheck EXCEPT !.outcome = "bad_status", !.status_code = code]
    /\ ret' = FailureResult
    /\ pc' = "checked"
    /\ UNCHANGED <<self, first_run, dlVars, reg_ctx, sleep_arg, driver_log,
                   raised, interrupted, reg_called, decode_failures, seen, prev, frames>>

\* status 200 and every header value an integer
CheckOk ==
    /\ pc = "check"
    /\ \E p \in ParsedResponses :
          /\ p.ok
          /\ LET needs == NeedsUpdate(p.timestamp_now, self.timestamp)
             IN  /\ chk' = [outcome |-> "ok", status_code |-> 200,
                            timestamp_now |-> p.timestamp_now,
                            sleep_time |-> p.sleep_time, rotation |-> p.rotation]
                 /\ self' = StateAfterCheck(self, p, needs)
                 /\ ret' = CheckResult(p, needs)
                 /\ seen' = [any |-> TRUE, ts |-> p.timestamp_now]
    /\ pc' = "checked"
    /\ UNCHANGED <<first_run, dlVars, reg_ctx, sleep_arg, driver_log,
                   raised, interrupted, reg_called, decode_failures, prev, frames>>

\* status 200 and int(value) raises ValueError: not a RequestException, so it
\* leaves check_for_update and reaches run()'s except Exception
CheckParseError ==
    /\ pc = "check"
    /\ \E p \in ParsedResponses : ~p.ok
    /\ chk' = [NoCheck EXCEPT !.outcome = "parse_error", !.status_code = 200]
    /\ raised' = raised \cup {"header_parse"}
    /\ pc' = "handler"
    /\ UNCHANGED <<self, first_run, ret, dlVars, reg_ctx, sleep_arg, driver_log,
                   interrupted, reg_called, decode_failures, seen, prev, frames>>

\* run(): if needs_update / elif first_run / else
Decide ==
    /\ pc = "checked"
    /\ IF ret.needs_update
       THEN pc' = "download" /\ UNCHANGED <<reg_ctx, reg_called>>
       ELSE IF first_run
       THEN pc' = "reg_init" /\ reg_ctx' = "body" /\ reg_called' = TRUE
       ELSE pc' = "sleep" /\ UNCHANGED <<reg_ctx, reg_called>>
    /\ UNCHANGED <<self, first_run, chk, ret, dlVars, sleep_arg, driver_log,
                   raised, interrupted, decode_failures, seen, prev, frames>>

(***************************************************************************)
(* The display driver: each call either returns or raises.                 *)
(***************************************************************************)
Outcomes == {"ok", "raised"}

DriverCall(call, outcome, what, size) ==
    [call |-> call, outcome |-> outcome, what |-> what, size |-> size]

NoSize == <<0, 0>>

(***************************************************************************)
(* download_and_display_image                                              *)
(***************************************************************************)
\* the failures the spec calls decode failures: short payload, unknown magic,
\* decoder returned None
DecodeFailureKinds == {"short", "unknown", "decode"}

CountUp(n) == IF n < 2 THEN n + 1 ELSE n

\* every `return False`, the two except clauses included
DownloadFails(why) ==
    /\ success' = FALSE
    /\ dl_fail' = why
    /\ decode_failures' =
          IF why \in DecodeFailureKinds THEN CountUp(decode_failures) ELSE decode_failures
    /\ pc' = "dl_done"

\* requests.get raises RequestException
DownloadTransportError ==
    /\ pc = "download"
    /\ DownloadFails("transport")
    /\ raised' = raised \cup {"fetch"}
    /\ UNCHANGED <<self, first_run, chk, ret, data, decoder, image, reg_ctx, sleep_arg,
                   driver_log, interrupted, reg_called, seen, prev, frames>>

\* response.status_code != 200
DownloadBadStatus ==
    /\ pc = "download"
    /\ DownloadFails("status")
    /\ UNCHANGED <<self, first_run, chk, ret, data, decoder, image, reg_ctx, sleep_arg,
                   driver_log, raised, interrupted, reg_called, seen, prev, frames>>

\* status 200: data = response.content, the length check, the magic is read
DownloadPayload ==
    /\ pc = "download"
    /\ \E payload \in Payloads :
          /\ data' = payload
          /\ IF Len(payload) < 2
             THEN DownloadFails("short")
             ELSE pc' = "dl_init" /\ UNCHANGED <<success, dl_fail, decode_failures>>
    /\ UNCHANGED <<self, first_run, chk, ret, decoder, image, reg_ctx, sleep_arg,
                   driver_log, raised, interrupted, reg_called, seen, prev, frames>>

\* self.init_display(), then the decoder the magic selects, then the rotation
DlInitDisplay(outcome) ==
    /\ pc = "dl_init"
    /\ driver_log' = Append(driver_log, DriverCall("init", outcome, "-", NoSize))
    /\ IF outcome = "raised"
       THEN /\ DownloadFails("exception")
            /\ raised' = raised \cup {"init_display"}
            /\ UNCHANGED <<decoder, image>>
       ELSE /\ UNCHANGED raised
            /\ LET fmt == FormatOf(ReadMagic(data))
               IN  IF fmt = "none"
                   THEN DownloadFails("unknown") /\ UNCHANGED <<decoder, image>>
                   ELSE /\ decoder' = fmt
                        /\ LET img == Decode(fmt, data)
                           IN  IF img.none
                               THEN image' = None /\ DownloadFails("decode")
                               ELSE /\ image' = Rotate(img, self.rotation)
                                    /\ pc' = "dl_render"
                                    /\ UNCHANGED <<success, dl_fail, decode_failures>>
    /\ UNCHANGED <<self, first_run, chk, ret, data, reg_ctx, sleep_arg,
                   interrupted, reg_called, seen, prev, frames>>

\* self.display_image(image)
DlRender(outcome) ==
    /\ pc = "dl_render"
    /\ driver_log' =
          Append(driver_log, DriverCall("display", outcome, "content", DisplaySize(image)))
    /\ IF outcome = "raised"
       THEN DownloadFails("exception") /\ raised' = raised \cup {"render"}
       ELSE pc' = "dl_sleep" /\ UNCHANGED <<success, dl_fail, decode_failures, raised>>
    /\ UNCHANGED <<self, first_run, chk, ret, data, decoder, image, reg_ctx, sleep_arg,
                   interrupted, reg_called, seen, prev, frames>>

\* self.sleep_display(), return True
DlSleepDisplay(outcome) ==
    /\ pc = "dl_sleep"
    /\ driver_log' = Append(driver_log, DriverCall("sleep", outcome, "-", NoSize))
    /\ IF outcome = "raised"
       THEN DownloadFails("exception") /\ raised' = raised \cup {"display_sleep"}
       ELSE /\ success' = TRUE
            /\ pc' = "dl_done"
            /\ UNCHANGED <<dl_fail, decode_failures, raised>>
    /\ UNCHANGED <<self, first_run, chk, ret, data, decoder, image, reg_ctx, sleep_arg,
                   interrupted, reg_called, seen, prev, frames>>

\* run(): if not success and first_run: display_registration_info(); then
\* first_run = False.  The locals of download_and_display_image are gone.
ShowsRegistration(ok, first) == ~ok /\ first

DownloadReturns ==
    /\ pc = "dl_done"
    /\ IF ShowsRegistration(success, first_run)
       THEN /\ pc' = "reg_init"
            /\ reg_ctx' = "body"
            /\ reg_called' = TRUE
            /\ UNCHANGED first_run
       ELSE /\ first_run' = FALSE
            /\ pc' = "sleep"
            /\ UNCHANGED <<reg_ctx, reg_called>>
    /\ data' = <<>>
    /\ decoder' = "none"
    /\ image' = None
    /\ UNCHANGED <<self, chk, ret, success, dl_fail, sleep_arg, driver_log,
                   raised, interrupted, decode_failures, seen, prev, frames>>

(***************************************************************************)
(* display_registration_info, called from the loop body (an exception      *)
(* goes to run()'s handlers) or from the except Exception handler (inside  *)
(* try ... except BaseException: pass).                                    *)
(***************************************************************************)
RegPcs == {"reg_init", "reg_font", "reg_render", "reg_sleep"}

\* the statement after the call: first_run = False, then the sleep of that branch
AfterRegistration ==
    /\ first_run' = FALSE
    /\ IF reg_ctx = "body"
       THEN pc' = "sleep" /\ UNCHANGED sleep_arg
       ELSE pc' = "handler_sleeping" /\ sleep_arg' = DEFAULT_SLEEP_TIME

\* an exception leaves display_registration_info
RegRaises ==
    IF reg_ctx = "body"
    THEN pc' = "handler" /\ UNCHANGED <<first_run, sleep_arg>>
    ELSE AfterRegistration

RegInit(outcome) ==
    /\ pc = "reg_init"
    /\ driver_log' = Append(driver_log, DriverCall("init", outcome, "-", NoSize))
    /\ IF outcome = "raised"
       THEN RegRaises /\ raised' = raised \cup {"reg_init"}
       ELSE pc' = "reg_font" /\ UNCHANGED <<first_run, sleep_arg, raised>>
    /\ UNCHANGED <<self, chk, ret, dlVars, reg_ctx, interrupted, reg_called,
                   decode_failures, seen, prev, frames>>

\* the fonts load, or except BaseException falls back to the default font
RegFont ==
    /\ pc = "reg_font"
    /\ pc' = "reg_render"
    /\ UNCHANGED <<self, first_run, chk, ret, dlVars, reg_ctx, sleep_arg, driver_log,
                   raised, interrupted, reg_called, decode_failures, seen, prev, frames>>

\* the screen is drawn on a DISPLAY_WIDTH x DISPLAY_HEIGHT image; display_image
RegRender(outcome) ==
    /\ pc = "reg_render"
    /\ driver_log' =
          Append(driver_log,
                 DriverCall("display", outcome, "registration",
                            DisplaySize(Img(DISPLAY_WIDTH, DISPLAY_HEIGHT))))
    /\ IF outcome = "raised"
       THEN RegRaises /\ raised' = raised \cup {"reg_render"}
       ELSE pc' = "reg_sleep" /\ UNCHANGED <<first_run, sleep_arg, raised>>
    /\ UNCHANGED <<self, chk, ret, dlVars, reg_ctx, interrupted, reg_called,
                   decode_failures, seen, prev, frames>>

\* self.sleep_display(), and display_registration_info returns
RegSleepDisplay(outcome) ==
    /\ pc = "reg_sleep"
    /\ driver_log' = Append(driver_log, DriverCall("sleep", outcome, "-", NoSize))
    /\ IF outcome = "raised"
       THEN RegRaises /\ raised' = raised \cup {"reg_sleep"}
       ELSE AfterRegistration /\ UNCHANGED raised
    /\ UNCHANGED <<self, chk, ret, dlVars, reg_ctx, interrupted, reg_called,
                   decode_failures, seen, prev, frames>>

(***************************************************************************)
(* run(): the sleep of the loop body, the except Exception handler, and    *)
(* the next iteration.                                                     *)
(***************************************************************************)
\* time.sleep(sleep_time): ValueError on a negative argument
Sleep ==
    /\ pc = "sleep"
    /\ IF ret.sleep_time < 0
       THEN pc' = "handler" /\ raised' = raised \cup {"sleep_call"} /\ UNCHANGED sleep_arg
       ELSE pc' = "sleeping" /\ sleep_arg' = ret.sleep_time /\ UNCHANGED raised
    /\ UNCHANGED <<self, first_run, chk, ret, dlVars, reg_ctx, driver_log,
                   interrupted, reg_called, decode_failures, seen, prev, frames>>

\* a handler that sleeps the interval of the loop body
Handler_advisedSleep ==
    /\ pc = "handler"
    /\ IF first_run
       THEN /\ pc' = "reg_init"
            /\ reg_ctx' = "handler"
            /\ reg_called' = TRUE
            /\ UNCHANGED sleep_arg
       ELSE /\ pc' = "handler_sleeping"
            /\ sleep_arg' = ret.sleep_time
            /\ UNCHANGED <<reg_ctx, reg_called>>
    /\ UNCHANGED <<self, first_run, chk, ret, dlVars, driver_log,
                   raised, interrupted, decode_failures, seen, prev, frames>>

\* except Exception: the registration screen on the first run, then
\* time.sleep(DEFAULT_SLEEP_TIME)
Handler ==
    /\ pc = "handler"
    /\ IF first_run
       THEN /\ pc' = "reg_init"
            /\ reg_ctx' = "handler"
            /\ reg_called' = TRUE
            /\ UNCHANGED sleep_arg
       ELSE /\ pc' = "handler_sleeping"
            /\ sleep_arg' = DEFAULT_SLEEP_TIME
            /\ UNCHANGED <<reg_ctx, reg_called>>
    /\ UNCHANGED <<self, first_run, chk, ret, dlVars, driver_log,
                   raised, interrupted, decode_failures, seen, prev, frames>>

\* time.sleep returns: back to the top of while True
Wake ==
    /\ pc \in {"sleeping", "handler_sleeping"}
    /\ pc' = "check"
    /\ chk' = NoCheck
    /\ ret' = NoResult
    /\ data' = <<>>
    /\ decoder' = "none"
    /\ image' = None
    /\ success' = FALSE
    /\ dl_fail' = "none"
    /\ reg_ctx' = "none"
    /\ sleep_arg' = 0
    /\ driver_log' = <<>>
    /\ raised' = {}
    /\ interrupted' = FALSE
    /\ reg_called' = FALSE
    /\ prev' = IF dl_fail # "none"
               THEN [dl_failed |-> TRUE, advertised |-> chk.timestamp_now]
               ELSE NoPrev
    /\ UNCHANGED <<self, first_run, decode_failures, seen, frames>>

(***************************************************************************)
(* KeyboardInterrupt, delivered wherever run() is.                         *)
(***************************************************************************)
\* inside try ... except BaseException: the font loading of the registration
\* screen, and the whole registration call made by the except Exception handler
InSwallowingTry == pc = "reg_font" \/ (pc \in RegPcs /\ reg_ctx = "handler")

\* inside the except Exception handler but outside its inner try
InHandler == pc \in {"handler", "handler_sleeping"}

Running == pc \notin {"exited", "escaped"}

\* inside run()'s try: except KeyboardInterrupt: break
InterruptHandled ==
    /\ Running /\ ~InSwallowingTry /\ ~InHandler
    /\ interrupted' = TRUE
    /\ pc' = "exited"
    /\ UNCHANGED <<self, first_run, chk, ret, dlVars, reg_ctx, sleep_arg, driver_log,
                   raised, reg_called, decode_failures, seen, prev, frames>>

\* except BaseException catches it: the code goes on as after any exception
InterruptSwallowed ==
    /\ Running /\ InSwallowingTry
    /\ interrupted' = TRUE
    /\ IF pc = "reg_font"
       THEN pc' = "reg_render" /\ UNCHANGED <<first_run, sleep_arg>>
       ELSE AfterRegistration
    /\ UNCHANGED <<self, chk, ret, dlVars, reg_ctx, driver_log,
                   raised, reg_called, decode_failures, seen, prev, frames>>

\* no try encloses it: the KeyboardInterrupt propagates out of run()
InterruptEscapes ==
    /\ Running /\ InHandler
    /\ interrupted' = TRUE
    /\ pc' = "escaped"
    /\ UNCHANGED <<self, first_run, chk, ret, dlVars, reg_ctx, sleep_arg, driver_log,
                   raised, reg_called, decode_failures, seen, prev, frames>>

Next ==
    \/ CheckTransportError
    \/ CheckBadStatus
    \/ CheckOk
    \/ CheckParseError
    \/ Decide
    \/ DownloadTransportError
    \/ DownloadBadStatus
    \/ DownloadPayload
    \/ \E o \in Outcomes : DlInitDisplay(o)
    \/ \E o \in Outcomes : DlRender(o)
    \/ \E o \in Outcomes : DlSleepDisplay(o)
    \/ DownloadReturns
    \/ \E o \in Outcomes : RegInit(o)
    \/ RegFont
    \/ \E o \in Outcomes : RegRender(o)
    \/ \E o \in Outcomes : RegSleepDisplay(o)
    \/ Sleep
    \/ Handler
    \/ Wake
    \/ InterruptHandled
    \/ InterruptSwallowed
    \/ InterruptEscapes

Spec == Init /\ [][Next]_vars

TypeOK ==
    /\ pc \in {"check", "checked", "download", "dl_init", "dl_render", "dl_sleep",
               "dl_done", "sleep", "sleeping", "handler", "handler_sleeping",
               "exited", "escaped"} \cup RegPcs
    /\ first_run \in BOOLEAN
    /\ ret.needs_update \in BOOLEAN
    /\ success \in BOOLEAN
    /\ decoder \in {"none", "bmp", "z1", "z2", "z3"}
    /\ reg_ctx \in {"none", "body", "handler"}
    /\ decode_failures \in 0..2

(***************************************************************************)
(* The RLE decoders on their own: decode_rle_z1 / z2 / z3 applied to a     *)
(* byte string, one step per iteration of the while loop.                  *)
(*   rle   the frame of the call: pc, decoder, data and the locals idx, x,  *)
(*         y, pixels; and, as history, the offsets of data read so far      *)
(*         (reads), in the last iteration (last), and the tokens consumed   *)
(***************************************************************************)
Decoders == {"z1", "z2", "z3"}

\* a byte string: head, then reps copies of fill, then tail
ByteString(head, fill, reps, tail) ==
    [head |-> head, fill |-> fill, reps |-> reps, tail |-> tail]

\* len(data)
len(d) == Len(d.head) + d.reps * Len(d.fill) + Len(d.tail)

\* data[i], offsets counted from 0
At(d, i) ==
    LET h == Len(d.head)
        m == d.reps * Len(d.fill)
    IN  IF i < h THEN d.head[i + 1]
        ELSE IF i < h + m THEN d.fill[((i - h) % Len(d.fill)) + 1]
        ELSE d.tail[i - h - m + 1]

\* a colour map that paints index 1 white
get_color_from_index_oneWhite(pixel_color) ==
    IF pixel_color \in {0, 1} THEN COLOR_WHITE ELSE COLOR_BLACK

\* _get_color_from_index
get_color_from_index(pixel_color) ==
    IF pixel_color = 0 THEN COLOR_WHITE
    ELSE IF pixel_color = 1 THEN COLOR_BLACK
    ELSE COLOR_BLACK

\* pixel_color = data[idx]; count = data[idx + 1]; idx += 2
Z1Token(d, idx) ==
    [pixel_color |-> At(d, idx), count |-> At(d, idx + 1), size |-> 2,
     offsets |-> {idx, idx + 1}]

\* a Z2 token read with the bit layout of Z3
Z2Token_threeBitColour(d, idx) ==
    [pixel_color |-> (At(d, idx) % 256) \div 32, count |-> At(d, idx) % 32, size |-> 1,
     offsets |-> {idx}]

\* compressed = data[idx]; idx += 1; count = compressed & 0b00111111;
\* pixel_color = (compressed & 0b11000000) >> 6
Z2Token(d, idx) ==
    [pixel_color |-> (At(d, idx) % 256) \div 64, count |-> At(d, idx) % 64, size |-> 1,
     offsets |-> {idx}]

\* count = compressed & 0b00011111; pixel_color = (compressed & 0b11100000) >> 5
Z3Token(d, idx) ==
    [pixel_color |-> (At(d, idx) % 256) \div 32, count |-> At(d, idx) % 32, size |-> 1,
     offsets |-> {idx}]

\* pixels[x, y] = color, kept as runs of writes to successive raster cells
WritePixel(pixels, px, py, color) ==
    LET n == Len(pixels)
    IN  IF /\ n > 0
           /\ pixels[n].color = color
           /\ pixels[n].y * DISPLAY_WIDTH + pixels[n].x + pixels[n].n
                 = py * DISPLAY_WIDTH + px
        THEN [pixels EXCEPT ![n].n = @ + 1]
        ELSE Append(pixels, [x |-> px, y |-> py, n |-> 1, color |-> color])

\* the body of for _ in range(count): the guarded write, the cursor step, the
\* break; after the break the remaining passes are not made
Max(a, b) == IF a >= b THEN a ELSE b

\* a loop body that starts over at the first row after the last one
PaintStep_wraps(st, color) ==
    IF st.broke THEN st
    ELSE LET pixels == IF st.x < DISPLAY_WIDTH /\ st.y < DISPLAY_HEIGHT
                       THEN WritePixel(st.pixels, st.x, st.y, color)
                       ELSE st.pixels
         IN  IF st.x + 1 >= DISPLAY_WIDTH
             THEN [st EXCEPT !.x = 0, !.y = (st.y + 1) % DISPLAY_HEIGHT,
                             !.pixels = pixels]
             ELSE [st EXCEPT !.x = st.x + 1, !.pixels = pixels,
                             !.xmax = Max(st.xmax, st.x + 1)]

\* the body of for _ in range(count): the guarded write, the cursor step, the
\* break; after the break the remaining passes are not made.  xmax and ymax
\* are the greatest cursor values a pass has left behind.
PaintStep(st, color) ==
    IF st.broke THEN st
    ELSE LET pixels == IF st.x < DISPLAY_WIDTH /\ st.y < DISPLAY_HEIGHT
                       THEN WritePixel(st.pixels, st.x, st.y, color)
                       ELSE st.pixels
         IN  IF st.x + 1 >= DISPLAY_WIDTH
             THEN [st EXCEPT !.x = 0, !.y = st.y + 1, !.pixels = pixels,
                             !.broke = st.y + 1 >= DISPLAY_HEIGHT,
                             !.ymax = Max(st.ymax, st.y + 1)]
             ELSE [st EXCEPT !.x = st.x + 1, !.pixels = pixels,
                             !.xmax = Max(st.xmax, st.x + 1)]

\* for _ in range(count): count passes of the body, split in halves
RECURSIVE PaintRun(_, _, _)
PaintRun(st, color, count) ==
    IF count = 0 THEN st
    ELSE IF count = 1 THEN PaintStep(st, color)
    ELSE LET half == PaintRun(st, color, count \div 2)
         IN  IF half.broke
             THEN half
             ELSE PaintRun(half, color, count - count \div 2)

\* image = Image.new('L', ...); pixels = image.load(); idx = 2; x, y = 0, 0
RleStart(dec, d) ==
    [pc |-> "while", decoder |-> dec, data |-> d, idx |-> 2, x |-> 0, y |-> 0,
     pixels |-> <<>>, xmax |-> 0, ymax |-> 0, reads |-> {}, tokens |-> 0, total |-> 0,
     last |-> [pixel_color |-> 0, count |-> 0, size |-> 0, offsets |-> {}]]

\* the while condition of each decoder
Z1More(f) == f.idx + 1 < len(f.data) /\ f.y < DISPLAY_HEIGHT

Z2More(f) == f.idx < len(f.data) /\ f.y < DISPLAY_HEIGHT

\* a while condition that only looks at the input
Z3More_anyRow(f) == f.idx < len(f.data)

Z3More(f) == f.idx < len(f.data) /\ f.y < DISPLAY_HEIGHT

More(f) ==
    CASE f.decoder = "z1" -> Z1More(f)
      [] f.decoder = "z2" -> Z2More(f)
      [] f.decoder = "z3" -> Z3More(f)

\* the offsets read so far, kept as their least and greatest
Widen(reads, offsets) ==
    LET all == reads \cup offsets
    IN  {o \in all : (\A p \in all : o <= p) \/ (\A p \in all : p <= o)}

\* one iteration of the while loop on token tok
Iterate(f, tok) ==
    LET st == PaintRun([x |-> f.x, y |-> f.y, pixels |-> f.pixels, broke |-> FALSE,
                        xmax |-> f.xmax, ymax |-> f.ymax],
                       get_color_from_index(tok.pixel_color), tok.count)
    IN  [f EXCEPT !.idx = f.idx + tok.size,
                  !.x = st.x, !.y = st.y, !.pixels = st.pixels,
                  !.xmax = st.xmax, !.ymax = st.ymax,
                  !.reads = Widen(f.reads, tok.offsets),
                  !.tokens = f.tokens + 1,
                  !.total = f.total + tok.count,
                  !.last = tok]

Z1Iteration ==
    /\ rle.pc = "while" /\ rle.decoder = "z1"
    /\ Z1More(rle)
    /\ rle' = Iterate(rle, Z1Token(rle.data, rle.idx))
    /\ UNCHANGED <<clientVars, bmp, hdr, render>>

Z2Iteration ==
    /\ rle.pc = "while" /\ rle.decoder = "z2"
    /\ Z2More(rle)
    /\ rle' = Iterate(rle, Z2Token(rle.data, rle.idx))
    /\ UNCHANGED <<clientVars, bmp, hdr, render>>

Z3Iteration ==
    /\ rle.pc = "while" /\ rle.decoder = "z3"
    /\ Z3More(rle)
    /\ rle' = Iterate(rle, Z3Token(rle.data, rle.idx))
    /\ UNCHANGED <<clientVars, bmp, hdr, render>>

\* the while condition fails: return image.convert('1')
RleReturn ==
    /\ rle.pc = "while"
    /\ ~More(rle)
    /\ rle' = [rle EXCEPT !.pc = "done"]
    /\ UNCHANGED <<clientVars, bmp, hdr, render>>

\* at most n iterations of the while loop of decode_rle_z1, split in halves
RECURSIVE Z1Loop(_, _)
Z1Loop(f, n) ==
    IF n = 0 THEN f
    ELSE IF n = 1
         THEN IF Z1More(f) THEN Iterate(f, Z1Token(f.data, f.idx)) ELSE f
    ELSE LET half == Z1Loop(f, n \div 2)
         IN  IF ~Z1More(half)
             THEN half
             ELSE Z1Loop(half, n - n \div 2)

\* decode_rle_z1 run to its return: no input has more tokens than bytes
decode_rle_z1_frame(d) ==
    [Z1Loop(RleStart("z1", d), len(d)) EXCEPT !.pc = "done"]

\* the value of the Image.new('L') canvas at a cell: the last write, else the fill
RECURSIVE Lookup(_, _, _, _)
Lookup(pixels, n, cell, fill) ==
    IF n = 0 THEN fill
    ELSE LET from == pixels[n].y * DISPLAY_WIDTH + pixels[n].x
         IN  IF from <= cell /\ cell < from + pixels[n].n
             THEN pixels[n].color
             ELSE Lookup(pixels, n - 1, cell, fill)

\* image.convert('1'): a value of an L image becomes 0 or 255
Convert1(v) == IF v >= 128 THEN 255 ELSE 0

\* the returned image at (px, py)
RlePixel(f, px, py) ==
    Convert1(Lookup(f.pixels, Len(f.pixels), py * DISPLAY_WIDTH + px, COLOR_WHITE))

(***************************************************************************)
(* Inputs of the RLE decoders.                                             *)
(***************************************************************************)
RleBytes == {0, 1, 2, \h25, \h45, \hC2, \hFF}

RleHeads == {<<>>, <<\h5A>>, <<\h31, \h5A>>}

RleBodies == UNION {[1..n -> RleBytes] : n \in 0..MaxBody}

ShortInputs == {ByteString(h, <<>>, 0, b) : h \in RleHeads, b \in RleBodies}

\* the longest run a token of the decoder can hold
MaxRun(dec) == CASE dec = "z1" -> 255 [] dec = "z2" -> 63 [] dec = "z3" -> 31

\* the bytes of the token (color index, count)
TokenBytes(dec, c, n) ==
    CASE dec = "z1" -> <<c, n>>
      [] dec = "z2" -> <<c * 64 + n>>
      [] dec = "z3" -> <<c * 32 + n>>

Cells == DISPLAY_WIDTH * DISPLAY_HEIGHT

\* streams that fill the canvas but for the cells of one shorter run, then
\* stop short, end exactly on the last cell, or run over it
LongTails(dec) ==
    LET rest == TokenBytes(dec, 0, Cells % MaxRun(dec))
        most == TokenBytes(dec, 0, MaxRun(dec))
        one  == TokenBytes(dec, 1, 1)
        zero == TokenBytes(dec, 1, 0)
    IN  {<<>>, rest, most, rest \o one, zero \o most, most \o most}

LongInputs(dec) ==
    {ByteString(<<\h5A, \h31>>, TokenBytes(dec, 1, MaxRun(dec)), Cells \div MaxRun(dec), t) :
        t \in LongTails(dec)}

RleInputs(dec) == ShortInputs \cup LongInputs(dec)

RleInit ==
    /\ Constructed
    /\ bmp = NoFrame /\ hdr = NoFrame /\ render = NoFrame
    /\ \E dec \in Decoders : \E d \in RleInputs(dec) : rle = RleStart(dec, d)

RleNext ==
    \/ Z1Iteration
    \/ Z2Iteration
    \/ Z3Iteration
    \/ RleReturn

RleSpec == RleInit /\ [][RleNext]_vars

(***************************************************************************)
(* decode_bmp on its own, applied to a byte buffer: the header, the        *)
(* palette, one step per stored row, the return.                           *)
(*   bmp   the frame of the call: pc, data, the unpacked header fields,     *)
(*         flip, row_size, palette, the row counter, the image (a value     *)
(*         per cell), and the result                                        *)
(***************************************************************************)
\* a BMP file whose pixel array starts at image_offset
BmpFile(image_offset, width, height, planes, depth, compression, rest) ==
    Bytes16(MAGIC_BMP) \o Bytes32(BMP_HEADER_LEN + Len(rest)) \o Zeros(4)
    \o Bytes32(image_offset) \o Bytes32(40) \o Bytes32(width) \o Bytes32(height)
    \o Bytes16(planes) \o Bytes16(depth) \o Bytes32(compression) \o Zeros(20) \o rest

\* data[i], offsets counted from 0
Byte(d, i) == d[i + 1]

\* a palette that reads a missing entry as black
PaletteEntry_missingBlack(d, idx) ==
    IF idx + 4 <= Len(d)
    THEN LET gray == (Byte(d, idx + 2) + Byte(d, idx + 1) + Byte(d, idx)) \div 3
         IN  IF gray > 128 THEN COLOR_WHITE ELSE COLOR_BLACK
    ELSE COLOR_BLACK

\* b, g, r, _ = data[idx:idx + 4]; gray = (r + g + b) // 3; white if gray > 0x80;
\* white as well when the entry is not wholly inside the buffer
PaletteEntry(d, idx) ==
    IF idx + 4 <= Len(d)
    THEN LET gray == (Byte(d, idx + 2) + Byte(d, idx + 1) + Byte(d, idx)) \div 3
         IN  IF gray > 128 THEN COLOR_WHITE ELSE COLOR_BLACK
    ELSE COLOR_WHITE

\* palette = [] and, if depth <= 8, 1 << depth entries from 14 + header_size
ReadPalette(d, depth, header_size) ==
    IF depth <= 8
    THEN [i \in 1..(2 ^ depth) |-> PaletteEntry(d, 14 + header_size + (i - 1) * 4)]
    ELSE <<>>

\* row_size, padded to 4 bytes
RowSize(width, depth) ==
    IF depth < 8
    THEN ((width * depth + 31) \div 32) * 4
    ELSE (((width * depth) \div 8 + 3) \div 4) * 4

\* palette[pn] if pn < len(palette) else COLOR_WHITE
Indexed(palette, pn) == IF pn < Len(palette) THEN palette[pn + 1] ELSE COLOR_WHITE

\* depth == 1: bit 7 - col % 8 of the byte
Pixel1(f, row_offset, col, old) ==
    LET byte_idx == row_offset + col \div 8
    IN  IF byte_idx < Len(f.data)
        THEN Indexed(f.palette, (Byte(f.data, byte_idx) \div (2 ^ (7 - (col % 8)))) % 2)
        ELSE old

\* depth == 4: the high nibble for an even column, the low one for an odd column
Pixel4(f, row_offset, col, old) ==
    LET byte_idx == row_offset + col \div 2
    IN  IF byte_idx < Len(f.data)
        THEN Indexed(f.palette,
                     IF col % 2 = 0
                     THEN (Byte(f.data, byte_idx) \div 16) % 16
                     ELSE Byte(f.data, byte_idx) % 16)
        ELSE old

\* depth == 8: the byte
Pixel8(f, row_offset, col, old) ==
    LET byte_idx == row_offset + col
    IN  IF byte_idx < Len(f.data)
        THEN Indexed(f.palette, Byte(f.data, byte_idx))
        ELSE old

\* whitish = (r + g + b) > 3 * 0x80
Whitish(r, g, b) == IF r + g + b > 3 * 128 THEN COLOR_WHITE ELSE COLOR_BLACK

\* depth == 16: 555 when compression == 0, else 565
Pixel16(f, row_offset, col, old) ==
    LET byte_idx == row_offset + col * 2
    IN  IF byte_idx + 1 < Len(f.data)
        THEN LET lsb == Byte(f.data, byte_idx)
                 msb == Byte(f.data, byte_idx + 1)
             IN  IF f.compression = 0
                 THEN Whitish(((msb \div 4) % 32) * 8,
                              (msb % 4) * 64 + (lsb \div 32) * 8,
                              (lsb % 32) * 8)
                 ELSE Whitish((msb \div 8) * 8,
                              (msb % 8) * 32 + (lsb \div 32) * 4,
                              (lsb % 32) * 8)
        ELSE old

\* depth in (24, 32): b, g, r from the first three of depth // 8 bytes
Pixel24(f, row_offset, col, old) ==
    LET byte_idx == row_offset + col * (f.depth \div 8)
    IN  IF byte_idx + 2 < Len(f.data)
        THEN Whitish(Byte(f.data, byte_idx + 2), Byte(f.data, byte_idx + 1),
                     Byte(f.data, byte_idx))
        ELSE old

\* the if / elif chain on depth; it has no else branch
BmpPixel(f, row_offset, col, old) ==
    CASE f.depth = 1 -> Pixel1(f, row_offset, col, old)
      [] f.depth = 4 -> Pixel4(f, row_offset, col, old)
      [] f.depth = 8 -> Pixel8(f, row_offset, col, old)
      [] f.depth = 16 -> Pixel16(f, row_offset, col, old)
      [] f.depth \in {24, 32} -> Pixel24(f, row_offset, col, old)
      [] OTHER -> old

\* a decoder that never flips
RowTarget_neverFlips(flip, height, row) == row

\* y = height - 1 - row if flip else row
RowTarget(flip, height, row) == IF flip THEN height - 1 - row ELSE row

BmpStart(d) == [pc |-> "header", data |-> d]

BmpFails(d, why) == [pc |-> "done", data |-> d, result |-> "None", why |-> why]

\* the fields unpacked from a header that passed the checks, flip, the white
\* image and row_size
BmpLocals(d) ==
    LET width == U32LE(d, 18)
        height == S32LE(d, 22)
        depth == U16LE(d, 28)
    IN  [pc |-> "palette", data |-> d, result |-> "-", why |-> "-",
         image_offset |-> U32LE(d, 10), header_size |-> U32LE(d, 14),
         width |-> width, height |-> Abs(height), planes |-> U16LE(d, 26),
         depth |-> depth, compression |-> U32LE(d, 30),
         flip |-> height > 0,
         image |-> [y \in 0..(Abs(height) - 1) |-> [x \in 0..(width - 1) |-> COLOR_WHITE]],
         row_size |-> RowSize(width, depth),
         palette |-> <<>>, row |-> 0]

\* the length, signature, planes and compression checks
BmpHeader ==
    /\ bmp.pc = "header"
    /\ LET d == bmp.data
       IN  bmp' = IF Len(d) < BMP_HEADER_LEN THEN BmpFails(d, "short")
                  ELSE IF U16LE(d, 0) # MAGIC_BMP THEN BmpFails(d, "signature")
                  ELSE IF U16LE(d, 26) # 1 THEN BmpFails(d, "planes")
                  ELSE IF U32LE(d, 30) \notin {0, 3} THEN BmpFails(d, "compression")
                  ELSE BmpLocals(d)
    /\ UNCHANGED <<clientVars, rle, hdr, render>>

BmpPalette ==
    /\ bmp.pc = "palette"
    /\ bmp' = [bmp EXCEPT !.pc = "rows",
                          !.palette = ReadPalette(bmp.data, bmp.depth, bmp.header_size)]
    /\ UNCHANGED <<clientVars, rle, hdr, render>>

\* one pass of for row in range(height)
BmpRow ==
    /\ bmp.pc = "rows"
    /\ bmp.row < bmp.height
    /\ LET y == RowTarget(bmp.flip, bmp.height, bmp.row)
           row_offset == bmp.image_offset + bmp.row * bmp.row_size
       IN  bmp' = [bmp EXCEPT
                     !.row = bmp.row + 1,
                     !.image[y] = [col \in 0..(bmp.width - 1) |->
                                      BmpPixel(bmp, row_offset, col, bmp.image[y][col])]]
    /\ UNCHANGED <<clientVars, rle, hdr, render>>

\* return image.convert('1')
BmpReturn ==
    /\ bmp.pc = "rows"
    /\ bmp.row >= bmp.height
    /\ bmp' = [bmp EXCEPT
                 !.pc = "done", !.result = "image",
                 !.image = [y \in DOMAIN bmp.image |->
                               [x \in DOMAIN bmp.image[y] |-> Convert1(bmp.image[y][x])]]]
    /\ UNCHANGED <<clientVars, rle, hdr, render>>

(***************************************************************************)
(* Inputs of decode_bmp: a header, then (from offset 54) a two-entry       *)
(* palette and (from offset 62) pixel bytes, cut off at every length.      *)
(***************************************************************************)
BmpPalettes ==
    { <<255, 255, 255, 0, 0, 0, 0, 0>>,
      <<0, 0, 0, 0, 255, 255, 255, 0>>,
      <<128, 128, 128, 0, 129, 129, 129, 0>> }

BmpPixels ==
    { <<\hA5, \h80, \hFF, \hFF, \h40, 0, \hFF, 0, \hFF, \h7F, \h10, \hE0,
        \hFF, \hFF, \hFF, \hFF, 0, 0, 0, 0, \h81, \h80, \h80, \hFF>>,
      <<\h5A, \h01, 0, 1, \h80, \h80, \h11, \hFF, 0, \hF8, \hE7, \h1F,
        \h80, \h80, \h81, 0, \hFF, \hFF, \hFF, 0, \h7C, \h03, \hFF, \h10>> }

BmpRests ==
    { SubSeq(p \o x, 1, n) : p \in BmpPalettes, x \in BmpPixels, n \in 0..32 }

BmpDepths == {1, 2, 4, 8, 16, 24, 32}

BmpWidths == (1..MaxWidth) \cup {9}

BmpHeights == {h \in (0 - MaxHeight)..MaxHeight : h # 0}

\* files whose header passes the checks
GoodBmps ==
    { BmpFile(62, w, h, 1, depth, c, rest) :
        w \in BmpWidths, h \in BmpHeights, depth \in BmpDepths,
        c \in {0}, rest \in BmpRests }
    \cup
    { BmpFile(62, w, h, 1, 16, 3, rest) :
        w \in BmpWidths, h \in BmpHeights, rest \in BmpRests }

\* files cut short, with another signature, plane count or compression code
BadBmps ==
    LET rest == <<255, 255, 255, 0, 0, 0, 0, 0, \hA5, 0, 0, 0, \h40, 0, 0, 0>>
        good == BmpFile(62, 3, 2, 1, 1, 0, rest)
    IN  { SubSeq(good, 1, n) : n \in {0, 1, 2, 30, 53} }
        \cup { [good EXCEPT ![1] = b] : b \in {0, \h5A} }
        \cup { BmpFile(62, 3, h, planes, depth, c, rest) :
                 h \in {0 - 2, 2}, planes \in {0, 1, 2}, depth \in {1, 24},
                 c \in {0, 1, 2, 3, 4} }

BmpInputs == GoodBmps \cup BadBmps

BmpInit ==
    /\ Constructed
    /\ rle = NoFrame /\ hdr = NoFrame /\ render = NoFrame
    /\ \E d \in BmpInputs : bmp = BmpStart(d)

BmpNext ==
    \/ BmpHeader
    \/ BmpPalette
    \/ BmpRow
    \/ BmpReturn

BmpSpec == BmpInit /\ [][BmpNext]_vars

(***************************************************************************)
(* The header loop of check_for_update on its own, applied to the headers  *)
(* of one response in iteration order, one step per header.                *)
(*   hdr   the frame: pc, headers, the position i in them, and the locals   *)
(*         timestamp_now, sleep_time, rotation (acc)                        *)
(***************************************************************************)
HdrStart(hs) == [pc |-> "for", headers |-> hs, i |-> 1, acc |-> ParseStart]

\* one pass of for header, value in response.headers.items()
HdrPass ==
    /\ hdr.pc = "for"
    /\ hdr.i <= Len(hdr.headers)
    /\ HeaderStep(hdr.acc, hdr.headers[hdr.i]).ok
    /\ hdr' = [hdr EXCEPT !.acc = HeaderStep(hdr.acc, hdr.headers[hdr.i]),
                          !.i = hdr.i + 1]
    /\ UNCHANGED <<clientVars, rle, bmp, render>>

\* int(value) raises ValueError
HdrValueError ==
    /\ hdr.pc = "for"
    /\ hdr.i <= Len(hdr.headers)
    /\ ~HeaderStep(hdr.acc, hdr.headers[hdr.i]).ok
    /\ hdr' = [hdr EXCEPT !.pc = "raised", !.acc = ParseError]
    /\ UNCHANGED <<clientVars, rle, bmp, render>>

\* the headers are exhausted: sleep_time and rotation are what is returned
HdrEnd ==
    /\ hdr.pc = "for"
    /\ hdr.i > Len(hdr.headers)
    /\ hdr' = [hdr EXCEPT !.pc = "done"]
    /\ UNCHANGED <<clientVars, rle, bmp, render>>

HdrInit ==
    /\ Constructed
    /\ rle = NoFrame /\ bmp = NoFrame /\ render = NoFrame
    /\ \E hs \in HeaderLists : hdr = HdrStart(hs)

HdrNext ==
    \/ HdrPass
    \/ HdrValueError
    \/ HdrEnd

HdrSpec == HdrInit /\ [][HdrNext]_vars

(***************************************************************************)
(* The way of an image to the panel, pixel by pixel: the rotation of       *)
(* download_and_display_image, then display_image.  An image is its size,  *)
(* the value of most of its pixels (fill) and the rectangles (marks) of    *)
(* the pixels that have another value; the rectangles do not overlap.      *)
(*   render   the frame: pc, what is shown, the decoded source, the         *)
(*            rotation code, and the image as it stands                     *)
(***************************************************************************)
Rect(x0, y0, x1, y1, v) == [x0 |-> x0, y0 |-> y0, x1 |-> x1, y1 |-> y1, v |-> v]

Picture(w, h, fill, marks) == [w |-> w, h |-> h, fill |-> fill, marks |-> marks]

Covers(m, x, y) == m.x0 <= x /\ x <= m.x1 /\ m.y0 <= y /\ y <= m.y1

\* image.getpixel((x, y))
ValueAt(img, x, y) ==
    IF \E m \in img.marks : Covers(m, x, y)
    THEN (CHOOSE m \in img.marks : Covers(m, x, y)).v
    ELSE img.fill

\* image.rotate(-90, expand=True): PIL transposes by ROTATE_270, a quarter
\* turn clockwise; (x, y) goes to (h - 1 - y, x)
Transpose270(img) ==
    Picture(img.h, img.w, img.fill,
            {Rect(img.h - 1 - m.y1, m.x0, img.h - 1 - m.y0, m.x1, m.v) : m \in img.marks})

\* image.rotate(180): turned about one axis only
Transpose180_mirrored(img) ==
    Picture(img.w, img.h, img.fill,
            {Rect(img.w - 1 - m.x1, m.y0, img.w - 1 - m.x0, m.y1, m.v) : m \in img.marks})

\* image.rotate(180): PIL transposes by ROTATE_180; (x, y) goes to
\* (w - 1 - x, h - 1 - y)
Transpose180(img) ==
    Picture(img.w, img.h, img.fill,
            {Rect(img.w - 1 - m.x1, img.h - 1 - m.y1, img.w - 1 - m.x0, img.h - 1 - m.y0, m.v)
                : m \in img.marks})

\* image.rotate(90, expand=True): PIL transposes by ROTATE_90, a quarter turn
\* counter-clockwise; (x, y) goes to (y, w - 1 - x)
Transpose90(img) ==
    Picture(img.h, img.w, img.fill,
            {Rect(m.y0, img.w - 1 - m.x1, m.y1, img.w - 1 - m.x0, m.v) : m \in img.marks})

\* if rotation == 1 / elif rotation == 2 / elif rotation == 3, else untouched
RotatePixels(img, rotation) ==
    CASE rotation = 1 -> Transpose270(img)
      [] rotation = 2 -> Transpose180(img)
      [] rotation = 3 -> Transpose90(img)
      [] OTHER -> img

\* resize of a mode '1' image samples the nearest source pixel: the centre of
\* target pixel t of `to` falls into source pixel floor((t + 0.5) * from / to)
Nearest(t, from, to) == ((2 * t + 1) * from) \div (2 * to)

\* the first and the last target pixel sampling sources a..b;
\* the range is empty when first > last
FirstFrom(a, from, to) ==
    IF \E t \in 0..(to - 1) : Nearest(t, from, to) >= a
    THEN CHOOSE t \in 0..(to - 1) :
             /\ Nearest(t, from, to) >= a
             /\ (t = 0 \/ Nearest(t - 1, from, to) < a)
    ELSE to

LastFrom(b, from, to) ==
    IF \E t \in 0..(to - 1) : Nearest(t, from, to) <= b
    THEN CHOOSE t \in 0..(to - 1) :
             /\ Nearest(t, from, to) <= b
             /\ (t = to - 1 \/ Nearest(t + 1, from, to) > b)
    ELSE 0 - 1

\* image.resize((w, h))
Resize(img, w, h) ==
    LET stretched == {Rect(FirstFrom(m.x0, img.w, w), FirstFrom(m.y0, img.h, h),
                           LastFrom(m.x1, img.w, w), LastFrom(m.y1, img.h, h), m.v)
                         : m \in img.marks}
    IN  Picture(w, h, img.fill, {m \in stretched : m.x0 <= m.x1 /\ m.y0 <= m.y1})

\* display_image without its resize
Resized_asIs(img) == img

\* if image.size != (DISPLAY_WIDTH, DISPLAY_HEIGHT): image = image.resize(...)
Resized(img) ==
    IF <<img.w, img.h>> # <<DISPLAY_WIDTH, DISPLAY_HEIGHT>>
    THEN Resize(img, DISPLAY_WIDTH, DISPLAY_HEIGHT)
    ELSE img

\* image.convert('1') of the whole image
ConvertImage1(img) ==
    Picture(img.w, img.h, Convert1(img.fill),
            {Rect(m.x0, m.y0, m.x1, m.y1, Convert1(m.v)) : m \in img.marks})

\* display_image: what is handed to epd.getbuffer and epd.display
display_image(img) == ConvertImage1(Resized(img))

\* display_registration_info: a white image with the header bar and the footer
\* bar drawn black (rectangles are clipped to the image); the texts are drawn
\* in COLOR_WHITE on the bars and in COLOR_BLACK elsewhere
RegistrationImage ==
    Picture(DISPLAY_WIDTH, DISPLAY_HEIGHT, COLOR_WHITE,
            {Rect(0, 0, DISPLAY_WIDTH - 1, 70, COLOR_BLACK),
             Rect(0, DISPLAY_HEIGHT - 40, DISPLAY_WIDTH - 1, DISPLAY_HEIGHT - 1, COLOR_BLACK)})

\* if rotation == ...: image = image.rotate(...)
RenderRotate ==
    /\ render.pc = "rotate"
    /\ render' = [render EXCEPT !.pc = "display",
                                !.image = RotatePixels(render.image, render.rotation)]
    /\ UNCHANGED <<clientVars, rle, bmp, hdr>>

\* self.display_image(image)
RenderDisplay ==
    /\ render.pc = "display"
    /\ render' = [render EXCEPT !.pc = "displayed",
                                !.image = display_image(render.image)]
    /\ UNCHANGED <<clientVars, rle, bmp, hdr>>

(***************************************************************************)
(* Inputs: the images a decoder can return (mode '1', any size the BMP     *)
(* header names, 800x480 from the RLE decoders) and every rotation code.   *)
(***************************************************************************)
MaxMarks == 2

RenderSizes == {<<DISPLAY_WIDTH, DISPLAY_HEIGHT>>, <<DISPLAY_HEIGHT, DISPLAY_WIDTH>>,
                <<8, 2>>, <<1, 1>>}

\* single pixels in the corners and next to one, and the middle row
MarkChoices(w, h, v) ==
    {Rect(0, 0, 0, 0, v), Rect(w - 1, 0, w - 1, 0, v), Rect(0, h - 1, 0, h - 1, v),
     Rect(w - 1, h - 1, w - 1, h - 1, v)}
    \cup (IF w > 2 THEN {Rect(1, 0, 1, 0, v)} ELSE {})
    \cup (IF h > 2 THEN {Rect(0, h \div 2, w - 1, h \div 2, v)} ELSE {})

Apart(m, n) == m.x1 < n.x0 \/ n.x1 < m.x0 \/ m.y1 < n.y0 \/ n.y1 < m.y0

\* at most MaxMarks of them, no two overlapping
MarkSets(w, h, v) ==
    {c \in SUBSET MarkChoices(w, h, v) :
        /\ Cardinality(c) <= MaxMarks
        /\ \A m \in c : \A n \in c : m = n \/ Apart(m, n)}

DecodedPictures ==
    UNION {{Picture(s[1], s[2], 255 - v, ms) : ms \in MarkSets(s[1], s[2], v)}
              : s \in RenderSizes, v \in {COLOR_WHITE, COLOR_BLACK}}

RenderStart(img, rotation) ==
    [pc |-> "rotate", what |-> "content", source |-> img, rotation |-> rotation,
     image |-> img]

RegistrationStart ==
    [pc |-> "display", what |-> "registration", source |-> RegistrationImage,
     rotation |-> 0, image |-> RegistrationImage]

RenderInit ==
    /\ Constructed
    /\ rle = NoFrame /\ bmp = NoFrame /\ hdr = NoFrame
    /\ \/ \E img \in DecodedPictures : \E r \in 0..MaxRotate : render = RenderStart(img, r)
       \/ render = RegistrationStart

RenderNext ==
    \/ RenderRotate
    \/ RenderDisplay

RenderSpec == RenderInit /\ [][RenderNext]_vars

(***************************************************************************)
(* Properties of the update poller.                                        *)
(***************************************************************************)
CheckReturnsOk == pc = "check" /\ pc' = "checked" /\ chk'.outcome = "ok"

CheckReturnsFailure ==
    pc = "check" /\ pc' = "checked" /\ chk'.outcome \in {"transport_error", "bad_status"}

Parsed(c) ==
    [timestamp |-> c.timestamp_now, sleep_time |-> c.sleep_time, rotation |-> c.rotation]

\* C1: a successful check reports needsUpdate exactly when the timestamp parsed
\* from the response differs from the lastTimestamp stored before the check; in
\* particular the first nonzero timestamp seen from the initial state reports true.
C1_UpdateIffTimestampDiffers ==
    [][ CheckReturnsOk =>
          /\ ret'.needs_update <=> (chk'.timestamp_now # self.timestamp)
          /\ (~seen.any /\ chk'.timestamp_now # 0) => ret'.needs_update ]_vars

\* a check answered false although the server sent a nonzero timestamp: the
\* same value had been stored by an earlier check that answered true
C1_Witness ==
    /\ pc = "checked"
    /\ chk.outcome = "ok"
    /\ chk.timestamp_now # 0
    /\ ~ret.needs_update

\* C2: from the second successful check on, a check reports needsUpdate exactly
\* when the timestamp it sees differs from the one the previous successful check
\* saw: false when the server value is the same, true once on a change and false
\* again while the new value stays.
C2_TrueOncePerChange ==
    [][ (CheckReturnsOk /\ seen.any) =>
          (ret'.needs_update <=> (chk'.timestamp_now # seen.ts)) ]_vars

\* a later iteration sees the highest timestamp again and reports no update
C2_Witness ==
    /\ pc = "checked"
    /\ chk.outcome = "ok"
    /\ ~first_run
    /\ chk.timestamp_now = MaxTs
    /\ ~ret.needs_update
    /\ ~prev.dl_failed

\* C3: a check that ends in a transport failure or a non-200 status returns
\* (false, 120, 0) and leaves the stored state as it was, so the stored
\* timestamp is still the one the last successful check saw.
C3_FailedCheckKeepsState ==
    [][ CheckReturnsFailure =>
          /\ ret' = [needs_update |-> FALSE, sleep_time |-> 120, rotation |-> 0]
          /\ self' = self
          /\ seen.any => self'.timestamp = seen.ts ]_vars

\* a transport failure after a nonzero timestamp and other advice were stored
C3_Witness ==
    /\ pc = "checked"
    /\ chk.outcome = "transport_error"
    /\ self.timestamp # 0
    /\ self.sleep_time # DEFAULT_SLEEP_TIME
    /\ self.rotation # 0

\* C4: the stored state changes only in a successfully parsed check that
\* reports needsUpdate, and then all three fields become the parsed values; a
\* check that reports no update, fails in transport or status, or fails to
\* parse a header leaves it unchanged, and the no-update check still returns
\* the parsed sleep and rotation.
C4_StateChangesOnlyOnUpdate ==
    [][ /\ (self' # self) => (CheckReturnsOk /\ ret'.needs_update)
        /\ (CheckReturnsOk /\ ret'.needs_update) => self' = Parsed(chk')
        /\ (CheckReturnsOk /\ ~ret'.needs_update) =>
              /\ self' = self
              /\ ret'.sleep_time = chk'.sleep_time
              /\ ret'.rotation = chk'.rotation
        /\ (pc = "check" /\ chk'.outcome = "parse_error") => self' = self ]_vars

\* a no-update check that returns advice differing from the stored advice
C4_Witness ==
    /\ pc = "checked"
    /\ chk.outcome = "ok"
    /\ ~ret.needs_update
    /\ ret.sleep_time # self.sleep_time
    /\ ret.rotation # self.rotation
    /\ self.timestamp # 0

(***************************************************************************)
(* Properties of the client loop.                                          *)
(***************************************************************************)
SleepingPcs == {"sleeping", "handler_sleeping"}

\* exceptions that leave the callee and reach run()'s except Exception
LoopErrors == {"header_parse", "reg_init", "reg_render", "reg_sleep", "sleep_call"}

\* exceptions download_and_display_image catches itself
DownloadErrors == {"fetch", "init_display", "render", "display_sleep"}

\* C5: when the download of one iteration failed and the next iteration's
\* check is given the same timestamp, that check reports needsUpdate, so the
\* fetch is attempted again.
C5_FailedFetchIsRetried ==
    (pc = "checked" /\ chk.outcome = "ok" /\ prev.dl_failed
        /\ chk.timestamp_now = prev.advertised)
    => ret.needs_update

\* C6 as claimed: whenever a non-interrupt error was raised in the iteration,
\* the sleep that ends the iteration is the default 120 seconds.
C6_AnyErrorSleepsDefault ==
    (pc \in SleepingPcs /\ raised # {}) => sleep_arg = 120

C6_SleepRule ==
    /\ (pc \in SleepingPcs /\ raised \cap LoopErrors # {}) =>
          (pc = "handler_sleeping" /\ sleep_arg = 120)
    /\ (pc \in SleepingPcs /\ raised \cap LoopErrors = {}) =>
          (pc = "sleeping" /\ sleep_arg = ret.sleep_time)
    /\ (pc \in SleepingPcs /\ "check_transport" \in raised) => sleep_arg = 120
    /\ (pc \in {"exited", "escaped"}) => interrupted

\* C6 amended: no non-interrupt error ends run(), and after the sleep the loop
\* starts another iteration.  An error that reaches the loop's handler (header
\* parsing, the registration screen called from the loop body, the sleep call)
\* ends the iteration by sleeping 120 seconds, and so does a transport failure
\* of the check; an error caught inside download_and_display_image leaves the
\* iteration to sleep the interval the check returned.
C6_ErrorsNeverEndTheLoop ==
    [][ /\ C6_SleepRule'
        /\ (pc \in SleepingPcs) => (pc' = "check" \/ interrupted') ]_vars

\* a download error in an iteration that then sleeps a server-advised interval
C6_Witness ==
    /\ pc = "sleeping"
    /\ raised \cap DownloadErrors # {}
    /\ sleep_arg # DEFAULT_SLEEP_TIME
    /\ ~first_run

\* C7: a KeyboardInterrupt delivered at any point makes run() leave the loop
\* through its interrupt handler: it is never swallowed and never escapes.
C7_InterruptExitsCleanly == interrupted => pc = "exited"

\* C8: the iteration with the first decode failure since process start shows
\* the registration screen, whichever iteration it is; later decode failures
\* do not.
C8_FirstDecodeFailureShowsRegistration ==
    (pc \in {"sleep", "sleeping"} /\ dl_fail \in DecodeFailureKinds) =>
        (reg_called <=> decode_failures = 1)

\* C9: within an iteration, once a render or display-sleep call to the driver
\* has raised, no further render call is made to the driver.
C9_NoRenderAfterDriverFailure ==
    \A i, j \in 1..Len(driver_log) :
        (/\ i < j
         /\ driver_log[i].call \in {"display", "sleep"}
         /\ driver_log[i].outcome = "raised")
        => driver_log[j].call # "display"

KnownMagics == {\h4D42, \h315A, \h325A, \h335A}

Unrecognised(d) == Len(d) < 2 \/ (d[1] + 256 * d[2]) \notin KnownMagics

\* C10: a payload shorter than 2 bytes, or whose first two bytes read as a
\* little-endian 16-bit integer are none of the four magics, makes the attempt
\* fail: no decoder is called, no image is produced, nothing is rendered.
C10_UnknownMagicFails ==
    /\ (pc = "dl_done" /\ Unrecognised(data)) =>
          /\ ~success
          /\ decoder = "none"
          /\ image = None
          /\ \A i \in 1..Len(driver_log) : driver_log[i].call # "display"
    /\ (pc \in {"dl_render", "dl_sleep"}) => ~Unrecognised(data)

\* the two bytes of "Z1" in the wrong order, rejected after init_display
C10_Witness ==
    /\ pc = "dl_done"
    /\ data = <<\h31, \h5A>>
    /\ dl_fail = "unknown"
    /\ Len(driver_log) = 1

(***************************************************************************)
(* Properties of the RLE decoders.                                         *)
(***************************************************************************)
\* the bytes of a (short) byte string as a sequence
BytesOf(d) == [i \in 1..len(d) |-> At(d, i - 1)]

\* decoder dec has returned from decoding exactly the bytes of stream
Decoded(dec, stream) ==
    /\ rle.pc = "done"
    /\ rle.decoder = dec
    /\ len(rle.data) = Len(stream)
    /\ BytesOf(rle.data) = stream

\* the returned canvas is black on the raster cells of `black`, white elsewhere
CanvasIs(f, black) ==
    \A py \in 0..(DISPLAY_HEIGHT - 1) : \A px \in 0..(DISPLAY_WIDTH - 1) :
        RlePixel(f, px, py) =
            IF (py * DISPLAY_WIDTH + px) \in black THEN COLOR_BLACK ELSE COLOR_WHITE

\* 0x31, 0x5A, 0b01_000101, 0b11_000010
C11_Stream == <<\h31, \h5A, \h45, \hC2>>

\* C11 as claimed: the stream decoded by the Z2 decoder paints 5 white pixels
\* then 2 black pixels from (0,0) in raster order, every other cell white.
C11_FiveWhiteTwoBlack ==
    Decoded("z2", C11_Stream) => CanvasIs(rle, 5..6)

\* C11 amended: the stream handed to the Z2 decoder paints 5 black pixels
\* (colour index 1) then 2 black pixels (colour index 3): the cells (0,0)..(6,0)
\* are black and every other canvas cell is white.
C11_SevenBlack ==
    Decoded("z2", C11_Stream) => CanvasIs(rle, 0..6)

\* the Z2 decoder has consumed both tokens of the stream: runs of 5 and 2
C11_Witness ==
    /\ Decoded("z2", C11_Stream)
    /\ rle.tokens = 2
    /\ rle.total = 7
    /\ rle.idx = 4

Min(a, b) == IF a <= b THEN a ELSE b

\* the raster index of the first cell of a run of writes
RunFrom(r) == r.y * DISPLAY_WIDTH + r.x

\* the number of writes in the first n runs
RECURSIVE Writes(_, _)
Writes(pixels, n) == IF n = 0 THEN 0 ELSE Writes(pixels, n - 1) + pixels[n].n

\* every write was made inside the canvas
InCanvas(pixels) ==
    \A i \in 1..Len(pixels) :
        /\ pixels[i].x \in 0..(DISPLAY_WIDTH - 1)
        /\ pixels[i].y \in 0..(DISPLAY_HEIGHT - 1)
        /\ pixels[i].n >= 1
        /\ RunFrom(pixels[i]) + pixels[i].n <= Cells

\* the k-th write went to raster cell k - 1: the cells written are a prefix of
\* the raster and each was written once
RasterPrefix(pixels) ==
    /\ InCanvas(pixels)
    /\ \A i \in 1..Len(pixels) : RunFrom(pixels[i]) = Writes(pixels, i - 1)

\* the writes of `before` are the first writes of `after`
Extends(after, before) ==
    LET n == Len(before)
    IN  /\ Len(after) >= n
        /\ \A i \in 1..(n - 1) : after[i] = before[i]
        /\ n > 0 => /\ after[n].x = before[n].x
                    /\ after[n].y = before[n].y
                    /\ after[n].color = before[n].color
                    /\ after[n].n >= before[n].n

\* the Z1 tokens in a byte string: whole pairs of bytes from offset 2 on
Z1Tokens(d) == IF len(d) < 4 THEN 0 ELSE (len(d) - 2) \div 2

\* the sum of the run lengths of tokens lo..hi (counted from 0)
RECURSIVE Z1RunSum(_, _, _)
Z1RunSum(d, lo, hi) ==
    IF lo > hi THEN 0
    ELSE IF lo = hi THEN At(d, 2 + 2 * lo + 1)
    ELSE LET mid == (lo + hi) \div 2
         IN  Z1RunSum(d, lo, mid) + Z1RunSum(d, mid + 1, hi)

\* index 0 white, any other index black
Z1Color(pixel_color) == IF pixel_color = 0 THEN 255 ELSE 0

Value(f, cell) == Lookup(f.pixels, Len(f.pixels), cell, COLOR_WHITE)

\* what holds of a Z1 frame after any number of tokens, and at the return
Z1Painted(f) ==
    LET painted == Min(f.total, Cells)
        sum == Z1RunSum(f.data, 0, Z1Tokens(f.data) - 1)
    IN  /\ RasterPrefix(f.pixels)
        /\ Writes(f.pixels, Len(f.pixels)) = painted
        /\ painted < Cells =>
              /\ <<f.x, f.y>> = <<painted % DISPLAY_WIDTH, painted \div DISPLAY_WIDTH>>
              /\ Value(f, painted) = 255
              /\ Value(f, Cells - 1) = 255
        /\ f.pc = "done" =>
              /\ painted = Min(sum, Cells)
              /\ sum < Cells => f.tokens = Z1Tokens(f.data)
              /\ sum > Cells =>
                    LET r == f.pixels[Len(f.pixels)]
                    IN  RunFrom(r) + r.n - 1 = 479 * 800 + 799

\* what one consumed token does to a Z1 frame
Z1Consumes(f, g) ==
    LET from == Min(f.total, Cells)
        upto == Min(g.total, Cells)
    IN  /\ g.last.pixel_color = At(f.data, f.idx)
        /\ g.last.count = At(f.data, f.idx + 1)
        /\ g.total = f.total + g.last.count
        /\ g.idx = f.idx + 2
        /\ Extends(g.pixels, f.pixels)
        /\ \A cell \in from..(upto - 1) : Value(g, cell) = Z1Color(g.last.pixel_color)
        /\ g.last.count = 0 => (g.pixels = f.pixels /\ <<g.x, g.y>> = <<f.x, f.y>>)

\* C12: for every Z1 token stream the painted cells are exactly the first
\* min(sum of run lengths, 800*480) cells in raster order, each in the colour
\* of the token covering it (index 0 white, any other black); a shorter sum
\* leaves the cells after the prefix white, a longer one ends on (799,479)
\* with the excess discarded and nothing wrapped, and a token with run 0 is
\* consumed without painting.
C12_Z1PaintsRasterPrefix ==
    [][ (rle'.decoder = "z1") =>
            /\ Z1Painted(rle')
            /\ (rle'.tokens = rle.tokens + 1) => Z1Consumes(rle, rle') ]_vars

\* a Z1 stream whose runs sum to more than the canvas, with a run of 0 in it,
\* decoded to the end
C12_Witness ==
    /\ rle.pc = "done"
    /\ rle.decoder = "z1"
    /\ rle.total > Cells
    /\ rle.last.count = 255
    /\ rle.tokens = Cells \div 255 + 2
    /\ rle.y = DISPLAY_HEIGHT

\* the bytes one token of the decoder takes
TokenSize(dec) == IF dec = "z1" THEN 2 ELSE 1

\* what holds of a decoder frame at every point of the call
Z20Bounded(f) ==
    /\ \A o \in f.reads : 2 <= o /\ o < len(f.data)
    /\ f.x >= 0 /\ f.x < 800 /\ f.xmax < 800
    /\ f.y >= 0 /\ f.y <= 480 /\ f.ymax <= 480
    /\ \A i \in 1..Len(f.pixels) :
          LET r == f.pixels[i]
          IN  /\ 0 <= r.x /\ r.x < 800 /\ 0 <= r.y /\ r.y < 480
              /\ r.y * 800 + r.x + r.n <= 800 * 480
    /\ f.pc = "done" => (f.y >= 480 \/ f.idx + TokenSize(f.decoder) > len(f.data))

\* what holds of every step of a decoder: a token is consumed only while
\* input is left and the cursor row is below 480, otherwise the call returns;
\* each token moves idx forward, never past the end of the input, so no call
\* makes more iterations than the input has bytes
Z20Step(f, g) ==
    LET exhausted == f.idx + TokenSize(f.decoder) > len(f.data)
    IN  /\ (exhausted \/ f.y >= 480) =>
              (g.pc = "done" /\ g.tokens = f.tokens /\ g.pixels = f.pixels)
        /\ ~(exhausted \/ f.y >= 480) =>
              /\ g.pc = "while"
              /\ g.tokens = f.tokens + 1
              /\ g.idx = f.idx + TokenSize(f.decoder)
              /\ g.idx <= len(f.data)
              /\ \A o \in g.last.offsets : f.idx <= o /\ o < g.idx

\* C20: on every input each of the Z1, Z2 and Z3 decoders terminates, reads
\* only offsets from 2 up to the input length, stops consuming tokens as soon
\* as the input is exhausted or the cursor row is 480, and keeps the cursor
\* within 0 <= x < 800, 0 <= y <= 480 so that every write is inside the canvas.
C20_DecodersAreBounded ==
    /\ [](rle.pc # "idle" => Z20Bounded(rle))
    /\ [][rle.pc = "while" => Z20Step(rle, rle')]_vars

\* the Z3 decoder has returned with the cursor row at 480 and a token unread
C20_Witness ==
    /\ rle.pc = "done"
    /\ rle.decoder = "z3"
    /\ rle.y = 480
    /\ rle.idx < len(rle.data)
    /\ rle.reads # {}

(***************************************************************************)
(* Properties of the BMP decoder.                                          *)
(***************************************************************************)
\* C13: a BMP whose bit depth is none of 1, 4, 8, 16, 24, 32 is a decode
\* failure: decode_bmp produces no image, the attempt is aborted and nothing
\* is rendered for it.
C13_UnsupportedDepthFails ==
    (/\ decoder = "bmp"
     /\ Len(data) >= 54
     /\ (data[29] + 256 * data[30]) \notin {1, 4, 8, 16, 24, 32})
    => /\ image = None
       /\ ~success
       /\ \A i \in 1..Len(driver_log) : driver_log[i].call # "display"

\* the header fields of a buffer of at least 54 bytes
HeaderOf(d) ==
    [offset |-> U32LE(d, 10), hsize |-> U32LE(d, 14), width |-> U32LE(d, 18),
     h |-> S32LE(d, 22), planes |-> U16LE(d, 26), depth |-> U16LE(d, 28),
     compression |-> U32LE(d, 30)]

\* shorter than 54 bytes, a plane count other than 1, a compression code
\* other than 0 and 3
Rejected(d) ==
    \/ Len(d) < 54
    \/ HeaderOf(d).planes # 1
    \/ HeaderOf(d).compression \notin {0, 3}

ValidHeader(d) == Len(d) >= 54 /\ d[1] = \h42 /\ d[2] = \h4D /\ ~Rejected(d)

\* ceil(a / b)
CeilDiv(a, b) == (a + b - 1) \div b

\* the row stride of the format, 4-byte aligned
Stride(width, depth) ==
    IF depth >= 8
    THEN CeilDiv((width * depth) \div 8, 4) * 4
    ELSE CeilDiv(width * depth, 32) * 4

\* the stored row that lands in output row y
SourceRow(h, y) == IF h < 0 THEN y ELSE Abs(h) - 1 - y

\* the offsets of the bytes the decoder needs for the pixel in column x of
\* stored row s: one byte up to 8 bpp, two at 16 bpp, three (b, g, r) above
PixelBytes(d, s, x) ==
    LET hd == HeaderOf(d)
        first == hd.offset + s * Stride(hd.width, hd.depth) + (x * hd.depth) \div 8
    IN  IF hd.depth <= 8 THEN {first}
        ELSE IF hd.depth = 16 THEN {first, first + 1}
        ELSE {first, first + 1, first + 2}

PastEnd(d, offsets) == \E o \in offsets : o >= Len(d)

\* C14: decode_bmp fails whenever the buffer is shorter than 54 bytes, the
\* plane count is not 1 or the compression code is neither 0 nor 3; with a
\* valid header it returns an image however many palette or pixel bytes are
\* missing, and every palette entry not wholly inside the buffer and every
\* pixel with a byte the decoder needs past the buffer end is white (the
\* fourth byte of a 32 bpp pixel is never read).
C14_OnlyTheHeaderFails ==
    bmp.pc = "done" =>
        LET d == bmp.data
        IN  /\ Rejected(d) => bmp.result = "None"
            /\ ValidHeader(d) =>
                  LET hd == HeaderOf(d)
                  IN  /\ bmp.result = "image"
                      /\ hd.depth <= 8 =>
                            \A i \in 0..(2 ^ hd.depth - 1) :
                                PastEnd(d, {14 + hd.hsize + 4 * i + k : k \in 0..3})
                                => bmp.palette[i + 1] = 255
                      /\ hd.depth \in {1, 4, 8, 16, 24, 32} =>
                            \A y \in 0..(Abs(hd.h) - 1) : \A x \in 0..(hd.width - 1) :
                                PastEnd(d, PixelBytes(d, SourceRow(hd.h, y), x))
                                => bmp.image[y][x] = 255

\* a 32 bpp file cut off inside its pixel array: an image with a black pixel
\* and a pixel whose bytes are missing
C14_Witness ==
    /\ bmp.pc = "done"
    /\ bmp.result = "image"
    /\ bmp.depth = 32
    /\ \E y \in 0..(bmp.height - 1) : \E x \in 0..(bmp.width - 1) :
          bmp.image[y][x] = 0
    /\ \E y \in 0..(bmp.height - 1) : \E x \in 0..(bmp.width - 1) :
          PastEnd(bmp.data,
                  PixelBytes(bmp.data, SourceRow(HeaderOf(bmp.data).h, y), x))

\* the colour of palette entry k: the mean of its three channels above 0x80
\* is white; an entry not wholly in the buffer is white
PaletteColour(d, k) ==
    LET at == 14 + HeaderOf(d).hsize + 4 * k
    IN  IF at + 4 > Len(d) THEN 255
        ELSE IF (d[at + 1] + d[at + 2] + d[at + 3]) \div 3 > 128 THEN 255 ELSE 0

\* stored row s of a 1 bpp file, as colours: bit 7 of a byte is the leftmost
StoredRow(d, s) ==
    LET hd == HeaderOf(d)
    IN  [col \in 0..(hd.width - 1) |->
            LET at == hd.offset + s * Stride(hd.width, 1) + col \div 8
            IN  IF at >= Len(d) THEN 255
                ELSE PaletteColour(d, (d[at + 1] \div (2 ^ (7 - (col % 8)))) % 2)]

\* C15: for every 1 bpp BMP of header height h the output has |h| rows, and
\* output row r is stored row r when h is negative and stored row |h|-1-r
\* when h is positive.
C15_RowsFlipOnPositiveHeight ==
    (bmp.pc = "done" /\ bmp.result = "image" /\ bmp.depth = 1) =>
        LET h == HeaderOf(bmp.data).h
            n == IF h < 0 THEN 0 - h ELSE h
        IN  /\ DOMAIN bmp.image = 0..(n - 1)
            /\ \A r \in 0..(n - 1) :
                  bmp.image[r] = StoredRow(bmp.data, IF h < 0 THEN r ELSE n - 1 - r)

\* a 1 bpp file of positive height whose two stored rows differ
C15_Witness ==
    /\ bmp.pc = "done"
    /\ bmp.result = "image"
    /\ bmp.depth = 1
    /\ bmp.flip
    /\ bmp.height = 2
    /\ bmp.width = 9
    /\ StoredRow(bmp.data, 0) # StoredRow(bmp.data, 1)
    /\ bmp.image[0] = StoredRow(bmp.data, 1)

(***************************************************************************)
(* Properties of the advice taken from the response headers.               *)
(***************************************************************************)
\* C16: in every reachable state, and in every value check_for_update
\* returns, sleepSeconds is an integer >= 0 and rotation is one of 0, 1, 2, 3,
\* whatever integers the headers carry.
C16_AdviceInRange ==
    /\ self.sleep_time >= 0
    /\ self.rotation \in {0, 1, 2, 3}
    /\ ret.sleep_time >= 0
    /\ ret.rotation \in {0, 1, 2, 3}

\* the position of the header with this lower-case name, 0 when it is absent
Position(hs, name) ==
    IF \E i \in 1..Len(hs) : Lower(hs[i][1]) = name
    THEN CHOOSE i \in 1..Len(hs) : Lower(hs[i][1]) = name
    ELSE 0

\* the integer a header value spells
IntOf(hs, i) == ParseInt(hs[i][2]).val

\* C18: when a response carries both sleep (minutes) and sleepseconds, the
\* returned interval is that of the one iterated later: sleepseconds when it
\* comes after sleep, sleep * 60 when sleep comes after sleepseconds; when
\* neither is present the interval is 120.
C18_LaterHeaderWins ==
    hdr.pc = "done" =>
        LET minutes == Position(hdr.headers, "sleep")
            seconds == Position(hdr.headers, "sleepseconds")
        IN  /\ (minutes > 0 /\ seconds > minutes) =>
                  hdr.acc.sleep_time = IntOf(hdr.headers, seconds)
            /\ (seconds > 0 /\ minutes > seconds) =>
                  hdr.acc.sleep_time = IntOf(hdr.headers, minutes) * 60
            /\ (minutes = 0 /\ seconds = 0) => hdr.acc.sleep_time = 120

\* sleep iterated after sleepseconds, the two spelling different intervals
C18_Witness ==
    /\ hdr.pc = "done"
    /\ Position(hdr.headers, "sleepseconds") = 1
    /\ Position(hdr.headers, "sleep") = 2
    /\ IntOf(hdr.headers, 1) = 1
    /\ IntOf(hdr.headers, 2) = 1
    /\ hdr.acc.sleep_time = 60

(***************************************************************************)
(* Properties of the rendering.                                            *)
(***************************************************************************)
ValuesOf(img) == {img.fill} \cup {m.v : m \in img.marks}

\* C17: every buffer handed to the panel, decoded content after any rotation
\* code or the registration screen, is exactly 800x480 and holds only the two
\* values white and black.
C17_PanelSizedTwoValued ==
    render.pc = "displayed" =>
        /\ render.image.w = 800
        /\ render.image.h = 480
        /\ ValuesOf(render.image) \subseteq {COLOR_WHITE, COLOR_BLACK}
        /\ \A m \in render.image.marks :
              0 <= m.x0 /\ m.x1 <= 799 /\ 0 <= m.y0 /\ m.y1 <= 479

\* a quarter-turned 800x480 picture, stretched back to the panel with black
\* and white both left in it
C17_Witness ==
    /\ render.pc = "displayed"
    /\ render.what = "content"
    /\ render.rotation = 1
    /\ <<render.source.w, render.source.h>> = <<800, 480>>
    /\ ValuesOf(render.image) = {COLOR_WHITE, COLOR_BLACK}

\* the corners of an image and of its marks
Corners(img) ==
    {<<0, 0>>, <<img.w - 1, 0>>, <<0, img.h - 1>>, <<img.w - 1, img.h - 1>>}
    \cup UNION {{<<m.x0, m.y0>>, <<m.x1, m.y0>>, <<m.x0, m.y1>>, <<m.x1, m.y1>>}
                   : m \in img.marks}

\* C19: of an 800x480 decoded image, codes 1 and 3 each make a 480x800 image,
\* by quarter turns in opposite directions (code 1 takes (x, y) to
\* (479 - y, x), code 3 takes it to (y, 799 - x)); code 2 makes an 800x480
\* image with source pixel (0, 0) at (799, 479); code 0 leaves the image as
\* it is.
C19_RotationCodes ==
    (/\ render.pc = "display"
     /\ render.what = "content"
     /\ <<render.source.w, render.source.h>> = <<800, 480>>) =>
        LET src == render.source
            out == render.image
        IN  /\ render.rotation \in {1, 3} =>
                  /\ <<out.w, out.h>> = <<480, 800>>
                  /\ \A p \in Corners(src) :
                        ValueAt(src, p[1], p[2]) =
                            IF render.rotation = 1
                            THEN ValueAt(out, 479 - p[2], p[1])
                            ELSE ValueAt(out, p[2], 799 - p[1])
            /\ render.rotation = 2 =>
                  /\ <<out.w, out.h>> = <<800, 480>>
                  /\ ValueAt(out, 799, 479) = ValueAt(src, 0, 0)
                  /\ \A p \in Corners(src) :
                        ValueAt(src, p[1], p[2]) = ValueAt(out, 799 - p[1], 479 - p[2])
            /\ render.rotation = 0 => out = src

\* a half turn of a picture whose pixel (0, 0) alone differs from the rest
C19_Witness ==
    /\ render.pc = "display"
    /\ render.what = "content"
    /\ render.rotation = 2
    /\ <<render.source.w, render.source.h>> = <<800, 480>>
    /\ render.source.marks = {Rect(0, 0, 0, 0, COLOR_BLACK)}
    /\ ValueAt(render.image, 799, 479) = COLOR_BLACK
    /\ ValueAt(render.image, 0, 0) = COLOR_WHITE

(***************************************************************************)
(* The three RLE decoders against each other.                              *)
(***************************************************************************)
\* the (colour, run) token that the decoder's one byte b packs
Unpacked(dec, b) ==
    LET runs == MaxRun(dec) + 1
    IN  CHOOSE t \in {<<b \div runs, b % runs>>} : TokenBytes(dec, t[1], t[2]) = <<b>>

\* the tokens of a byte sequence written as two-byte (colour, run) pairs
Pairs(dec, s) ==
    [i \in 1..(2 * Len(s)) |-> Unpacked(dec, s[(i + 1) \div 2])[2 - (i % 2)]]

\* the stream of a one-byte-token decoder with the tokens after the two
\* header bytes written as pairs
AsZ1(dec, d) ==
    IF d.reps = 0
    THEN LET s == BytesOf(d)
         IN  ByteString(SubSeq(s, 1, Min(2, Len(s))), <<>>, 0,
                        Pairs(dec, SubSeq(s, 3, Len(s))))
    ELSE ByteString(d.head, Pairs(dec, d.fill), d.reps, Pairs(dec, d.tail))

\* C21: for every sequence of (colour, run) tokens a variant can hold (Z2:
\* colour 0..3, run 0..63; Z3: colour 0..7, run 0..31), the canvas the
\* variant's decoder makes of the packed one-byte tokens is the canvas the Z1
\* decoder makes of the same tokens written as two-byte pairs: both make the
\* same writes in the same order and leave the cursor in the same place.
C21_VariantsDecodeAsZ1 ==
    (rle.pc = "done" /\ rle.decoder \in {"z2", "z3"}) =>
        LET z1 == decode_rle_z1_frame(AsZ1(rle.decoder, rle.data))
        IN  /\ z1.pixels = rle.pixels
            /\ <<z1.x, z1.y>> = <<rle.x, rle.y>>
            /\ z1.tokens = rle.tokens
            /\ \A cell \in {0, rle.total - 1, rle.total, Cells - 1} \cap 0..(Cells - 1) :
                  Convert1(Value(z1, cell)) = Convert1(Value(rle, cell))

\* the Z3 decoder has run over the end of the canvas, painting black
C21_Witness ==
    /\ rle.pc = "done"
    /\ rle.decoder = "z3"
    /\ rle.total > Cells
    /\ rle.y = DISPLAY_HEIGHT
    /\ Value(rle, 0) = COLOR_BLACK
    /\ decode_rle_z1_frame(AsZ1("z3", rle.data)).pixels = rle.pixels

(***************************************************************************)
(* Properties of the order of one iteration of run().                      *)
(***************************************************************************)
\* how far an iteration has come: the check, the fetch and its rendering, the
\* registration screen of the loop body, the sleep; then the except handler
Stage(p, ctx) ==
    CASE p = "check" -> 0
      [] p = "checked" -> 1
      [] p = "download" -> 2
      [] p = "dl_init" -> 3
      [] p = "dl_render" -> 4
      [] p = "dl_sleep" -> 5
      [] p = "dl_done" -> 6
      [] p \in RegPcs /\ ctx = "body" -> 7
      [] p = "sleep" -> 8
      [] p = "sleeping" -> 9
      [] p = "handler" -> 10
      [] p \in RegPcs /\ ctx = "handler" -> 11
      [] p = "handler_sleeping" -> 12
      [] OTHER -> 13

\* the step hands server content to display_image
RendersContent ==
    /\ Len(driver_log') = Len(driver_log) + 1
    /\ driver_log'[Len(driver_log')].call = "display"
    /\ driver_log'[Len(driver_log')].what = "content"

\* from the fetch to the rendering: the check of this iteration answered and
\* asked for an update, and the rotation in force is the one it parsed
FetchFollowsCheck ==
    pc \in {"download", "dl_init", "dl_render", "dl_sleep"} =>
        /\ chk.outcome = "ok"
        /\ ret.needs_update
        /\ ret.rotation = chk.rotation
        /\ self.rotation = chk.rotation

\* the image about to be rendered is the decoded payload, turned by the
\* rotation parsed in this iteration
RenderFollowsDecode ==
    pc = "dl_render" =>
        /\ decoder # "none"
        /\ ~Decode(decoder, data).none
        /\ image = Rotate(Decode(decoder, data), chk.rotation)

\* C22: every iteration goes check, then at most one fetch, then sleep: the
\* fetch is issued only after the check of the same iteration returned
\* needs_update = True, an iteration never goes back to an earlier stage and
\* a new check starts only out of a sleep; server content is rendered only
\* once its payload has decoded, and the rotation applied to it is the one
\* parsed from the check response of the same iteration.
C22_CheckFetchSleep ==
    /\ [](FetchFollowsCheck /\ RenderFollowsDecode)
    /\ [][ /\ (pc' = "download" /\ pc # "download") =>
                  (pc = "checked" /\ ret.needs_update /\ chk.outcome = "ok")
           /\ (pc' = "check" /\ pc # "check") => pc \in {"sleeping", "handler_sleeping"}
           /\ pc' # "check" => Stage(pc', reg_ctx') >= Stage(pc, reg_ctx)
           /\ RendersContent => (pc = "dl_render" /\ ~image.none) ]_vars

\* a later iteration whose check parsed a quarter turn: the decoded 8x2 image
\* stands turned, about to be rendered
C22_Witness ==
    /\ pc = "dl_render"
    /\ prev.advertised # 0
    /\ chk.rotation = 1
    /\ self.rotation = 1
    /\ decoder = "bmp"
    /\ Decode(decoder, data) = Img(8, 2)
    /\ image = Img(2, 8)

(***************************************************************************)
(* Properties of the display's power state across the sleep of the loop.   *)
(***************************************************************************)
\* C23: the display is never left initialized across the loop's sleep: in
\* every iteration each init_display call is followed by a sleep_display
\* call before the loop calls time.sleep, also when the payload has an
\* unknown magic, when decoding fails and when rendering raises.
C23_DisplayAsleepAcrossSleep ==
    pc \in {"sleeping", "handler_sleeping"} =>
        \A i \in 1..Len(driver_log) :
            driver_log[i].call = "init" =>
                \E j \in (i + 1)..Len(driver_log) : driver_log[j].call = "sleep"

=============================================================================
